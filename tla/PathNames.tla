----------------------------- MODULE PathNames -----------------------------
(***************************************************************************)
(* The path functions of VirtualMachineUtils.c, on paths as sequences of   *)
(* characters: what they accept and compare is decided by the character    *)
(* ("/a" is a prefix of "/ab" but not the directory it is in).  A function *)
(* returns its TVMStatus and what it leaves in the buffer of its caller.   *)
(*                                                                         *)
(* The last section is the reference: a path is a list of names, and a     *)
(* relative path walks along it.                                           *)
(***************************************************************************)
EXTENDS Integers, SequencesExt, FiniteSetsExt, Vectors

CONSTANTS
  Characters,  \* the characters of paths
  MaxPath      \* VM_FILE_SYSTEM_MAX_PATH, the length of the buffers

Slash == "/"

ASSUME PathAssumption ==
  /\ {Slash, "."} \subseteq Characters
  /\ MaxPath \in Nat /\ MaxPath > 3

Success(path) == [status |-> "success", path |-> path]
Failure(path) == [status |-> "failure", path |-> path]
Invalid(path) == [status |-> "invalid", path |-> path]

-----------------------------------------------------------------------------
(* The functions                                                           *)

IsAbsolutePath(name) == name # <<>> /\ Head(name) = Slash
IsRelativePath(name) == name = <<>> \/ Head(name) # Slash

Delimiters(path) == {i \in DOMAIN path : path[i] = Slash}
LastDelimiter(path) == Max(Delimiters(path) \cup {0})

EndsInDelimiter(path) == path # <<>> /\ Last(path) = Slash
WithDelimiter(path) ==
  IF EndsInDelimiter(path) THEN path ELSE Append(path, Slash)

DirectoryFromFullPath(path) ==
  LET d == LastDelimiter(path)
  IN IF d > MaxPath THEN Invalid(<<>>)
     ELSE Success(SubSeq(path, 1, IF d = 1 THEN 1 ELSE d - 1))

FileFromFullPath(path) ==
  LET name == SubSeq(path, LastDelimiter(path) + 1, Len(path))
  IN IF Len(name) >= MaxPath THEN Invalid(<<>>) ELSE Success(name)

ConsolidatePath(dirname, filename) ==
  LET dir == WithDelimiter(dirname)
  IN IF Len(dirname) >= MaxPath \/ Len(dir) + Len(filename) >= MaxPath
     THEN Invalid(dir)
     ELSE Success(dir \o filename)

\* One more character of a relative path: it begins an entry after a delimiter.
AddCharacter(entries, c) ==
  IF entries = <<>> \/ EndsInDelimiter(Last(entries))
  THEN Append(entries, <<c>>)
  ELSE Append(Front(entries), Append(Last(entries), c))

\* The entries of a relative path, each with the delimiter that ends it.
Entries(rel) ==
  LET entries[n \in 0 .. Len(rel)] ==
        IF n = 0 THEN <<>> ELSE AddCharacter(entries[n - 1], rel[n])
  IN entries[Len(rel)]

\* Mutant: the name above goes as well.
ParentOfParent(path) ==
  LET above == {i \in 1 .. Len(path) - 1 : path[i] = Slash}
  IN IF above = {} THEN Failure(path)
     ELSE Success(SubSeq(path, 1, Max({1} \cup (above \ {Max(above)}))))

\* The path up to its last delimiter but one at the very end.
Parent(path) ==
  LET last == IF EndsInDelimiter(path) THEN Len(path) - 1 ELSE Len(path)
      above == {i \in 1 .. last : path[i] = Slash}
  IN IF above = {} THEN Failure(path) ELSE Success(SubSeq(path, 1, Max(above)))

\* Mutant: no limit.
FitsAlways(dir, entry) == TRUE
Fits(dir, entry) == Len(dir) + Len(entry) <= MaxPath

\* One round of the loop over relpath.  The delimiter put before an entry is
\* not counted against the limit until the entry itself is.
AddEntry(sim, entry) ==
  LET dir == WithDelimiter(sim.path)
  IN IF sim.status # "success" \/ entry \in {<<".">>, <<".", Slash>>} THEN sim
     ELSE IF entry \in {<<".", ".">>, <<".", ".", Slash>>} THEN Parent(sim.path)
     ELSE IF Fits(dir, entry) THEN Success(dir \o entry)
     ELSE Invalid(dir)

\* The loop over relpath.
AddEntries(abs, entries) ==
  LET sim[n \in 0 .. Len(entries)] ==
        IF n = 0 THEN Success(abs) ELSE AddEntry(sim[n - 1], entries[n])
  IN sim[Len(entries)]

\* A delimiter at the end is taken away.
Trimmed(sim) ==
  IF sim.status = "success" /\ Len(sim.path) > 1 /\ EndsInDelimiter(sim.path)
  THEN Success(Front(sim.path))
  ELSE sim

SimplifyPath(abs, rel) ==
  IF IsAbsolutePath(rel) \/ ~IsAbsolutePath(abs) \/ Len(abs) > MaxPath
  THEN Invalid(<<>>)
  ELSE Trimmed(AddEntries(abs, Entries(rel)))

GetAbsolutePath(cur, dest) ==
  IF IsAbsolutePath(dest) THEN Success(dest) ELSE SimplifyPath(cur, dest)

\* Mutant: the end of a name is not looked for.
BeginsWith(base, dest, n) == n = Len(base)

\* Whether dest, which has n characters in common with base, is base or a
\* path below it.
Below(base, dest, n) ==
  n = Len(base) /\ (n = Len(dest) \/ dest[n + 1] = Slash)

\* Both paths are compared up to the first character that differs; the base
\* is left by one ".." for each of its names after the last common delimiter.
RelativePath(base, dest) ==
  LET n == Max({k \in 0 .. Min({Len(base), Len(dest)}) :
                  \A i \in 1 .. k : base[i] = dest[i]})
      delimiter == Max({i \in 1 .. n : base[i] = Slash} \cup {0})
      within == Below(base, dest, n)
      ups == CASE within -> 0
               [] ~within /\ delimiter = 0 ->
                    IF dest = <<>> THEN 0 ELSE 1 + Cardinality(Delimiters(base))
               [] OTHER -> Cardinality({i \in delimiter + 1 .. Len(base) :
                                          base[i - 1] = Slash})
      rest == SubSeq(dest, IF within THEN n + 1 ELSE Max({delimiter, 1}),
                     Len(dest))
      tail == IF IsAbsolutePath(rest) THEN Tail(rest) ELSE rest
      dots == IF ups = 0 THEN <<".", Slash>>
              ELSE FlattenSeq([i \in 1 .. ups |-> <<".", ".", Slash>>])
  IN IF ~within /\ delimiter = 0 /\ IsAbsolutePath(dest) THEN Failure(<<>>)
     ELSE IF 3 * ups >= MaxPath \/ Len(tail) + 3 * ups >= MaxPath
          THEN Invalid(dots)
     ELSE Success(dots \o tail)

\* The status of RelativePath is ignored; its buffer decides.
PathIsOnMount(mount, dest) ==
  LET rel == RelativePath(mount, dest).path
  IN ~(/\ Len(rel) >= 2 /\ rel[1] = "." /\ rel[2] = "."
       /\ Len(rel) = 2 \/ rel[3] = Slash)

-----------------------------------------------------------------------------
(* The reference                                                           *)

\* The names of a path.
Bare(entry) == IF EndsInDelimiter(entry) THEN Front(entry) ELSE entry
Names(path) ==
  LET bare == [k \in DOMAIN Entries(path) |-> Bare(Entries(path)[k])]
  IN Only(bare, Seq(Characters) \ {<<>>})

\* A delimiter and a name, for each of a list of names.
Joined(names) ==
  LET path[n \in 0 .. Len(names)] ==
        IF n = 0 THEN <<>> ELSE path[n - 1] \o <<Slash>> \o names[n]
  IN path[Len(names)]

\* The absolute path of a list of names.
PathOf(names) == IF names = <<>> THEN <<Slash>> ELSE Joined(names)

\* Names that lead down.
Down(names) == \A k \in DOMAIN names : names[k] \notin {<<".">>, <<".", ".">>}

\* An absolute path without ".", "..", empty names and a delimiter at its end.
Canonical(path) == path = PathOf(Names(path)) /\ Down(Names(path))

\* A path without two delimiters in a row, of which the functions make names
\* without characters.
Plain(path) ==
  \A i \in 1 .. Len(path) - 1 : ~(path[i] = Slash /\ path[i + 1] = Slash)

\* No list of names: a name has no delimiter.
NoWay == <<<<Slash>>>>

\* Where one step leads to: NoWay above the root.
Step(at, step) ==
  CASE at = NoWay \/ step = <<".">> -> at
    [] step = <<".", ".">> /\ at # NoWay -> IF at = <<>> THEN NoWay ELSE Front(at)
    [] OTHER -> Append(at, step)

\* Where a walk along the names of a relative path leads to.
Walk(names, steps) ==
  LET at[n \in 0 .. Len(steps)] ==
        IF n = 0 THEN names ELSE Step(at[n - 1], steps[n])
  IN at[Len(steps)]
=============================================================================
