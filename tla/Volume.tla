------------------------------- MODULE Volume -------------------------------
(***************************************************************************)
(* The mounted volume as an application sees it: the VMDirectory functions *)
(* of VirtualMachine.cpp with Dir.cpp, the working directory, the name     *)
(* VMFileOpen makes of its argument and VMFileRead of a file of the image. *)
(* A call that fails changes nothing and is left out.  The functions run   *)
(* with the signals suspended and are one action each, all but VMFileRead: *)
(* the scheduler() of its allocation has resumed the signals when it looks *)
(* for the Dir, and other threads may run between findDir() and the use of *)
(* what it returns.                                                        *)
(*                                                                         *)
(* `path` is a buffer of the application, which it leads from directory to *)
(* directory with VMFileSystemGetAbsolutePath.                             *)
(***************************************************************************)
EXTENDS PathNames, FATData

CONSTANTS
  Images,     \* the images that may be mounted
  Descs,      \* the descriptors applications call with
  Junk,       \* what the dirdesc of a Dir may hold when nobody has set it
  JunkNames,  \* the same for the name in its dirent
  Steps,      \* the arguments of VMDirectoryChange and GetAbsolutePath
  FileNames,  \* the arguments of VMFileOpen
  Lengths,    \* the lengths of reads
  MaxDirs,    \* a bound on the number of open directories
  MaxCurrent, \* a bound on the length of the working directory
  NULL

\* A root directory has room for an entry, and an argument fits the buffers.
ASSUME VolumeAssumption ==
  /\ \A im \in Images : im.root \in Seq(ToSet(im.root)) /\ im.root # <<>>
  /\ Descs \subseteq Int /\ Junk \subseteq Int /\ MaxDirs \in Nat
  /\ Lengths \subseteq Nat
  /\ \A arg \in Steps : arg \in Seq(Characters) /\ Len(arg) <= MaxPath
  /\ FileNames \subseteq Seq(Characters)

VARIABLES
  image,    \* VMFAT
  dirs,     \* the Dirs in their vector: dirdesc, pos, the name in dirent, and
            \* the entries read through it since it was opened or rewound
  curPath,  \* the working directory
  path,     \* the absolute path the application has come to
  reader,   \* the thread inside VMFileRead, if any: the place in dirs of the
            \* Dir it has found, 0 for a Dir that is not there or not there
            \* any more, and the length it reads
  fread,    \* the read of a file just made: its name, length and result
  halt      \* "no", or how the program ended: "undefined" or "abort"

vars == <<image, dirs, curPath, path, reader, fread, halt>>

RootIndex == 0  \* DIR_ROOT_INDEX

DirType == [desc : Int, pos : Nat, ent : JunkNames \cup
              {image.root[i].name : i \in DOMAIN image.root},
            seen : Seq({image.root[i] : i \in DOMAIN image.root})]

VolumeTypeOK ==
  /\ image \in Images
  /\ dirs \in Seq(DirType) /\ Len(dirs) <= MaxDirs
  /\ \A k \in DOMAIN dirs : dirs[k].pos <= Len(RootEnts(image))
  /\ Len(path) <= MaxPath /\ IsAbsolutePath(path)
  /\ reader = NULL \/ reader \in [dir : 0 .. Len(dirs), length : Lengths]
  /\ halt \in {"no", "undefined", "abort"}

-----------------------------------------------------------------------------
(* Directories                                                             *)

\* Mutant: the last directory of the descriptor.
findLastDir(d) == SelectLastInSeq(dirs, LAMBDA dir : dir.desc = d)

\* findDir(): the first directory of the descriptor, 0 when there is none.
findDir(d) == SelectInSeq(dirs, LAMBDA dir : dir.desc = d)

\* The constructor of Dir, for a name of the root directory and for another.
RootDir == [desc |-> RootIndex, pos |-> 0, ent |-> image.root[1].name,
            seen |-> <<>>]
OtherDirs == [desc : Junk, pos : {0}, ent : JunkNames, seen : {<<>>}]

VMDirectoryOpen ==
  /\ Len(dirs) < MaxDirs
  /\ \E dir \in {RootDir} \cup OtherDirs : dirs' = Append(dirs, dir)
  /\ fread' = NULL
  /\ UNCHANGED <<image, curPath, path, reader, halt>>

\* The Dir is deleted: a thread that has found it is left with a dangling
\* pointer.
VMDirectoryClose(d) ==
  LET k == findDir(d)
      place(j) == IF j = k THEN 0 ELSE IF j > k THEN j - 1 ELSE j
  IN /\ k # 0
     /\ dirs' = RemoveAt(dirs, k)
     /\ reader' = IF reader = NULL THEN NULL
                  ELSE [dir |-> place(reader.dir), length |-> reader.length]
     /\ fread' = NULL
     /\ UNCHANGED <<image, curPath, path, halt>>

\* The entry has been read.
Advance(dir, entry) ==
  [dir EXCEPT !.pos = @ + 1, !.seen = Append(@, entry)]

\* Every directory lists the root.
VMDirectoryRead(d) ==
  LET k == findDir(d)
      pos == dirs[k].pos
  IN /\ k # 0
     /\ pos < Len(RootEnts(image))
     /\ dirs' = [dirs EXCEPT ![k] = Advance(@, RootEnts(image)[pos + 1])]
     /\ fread' = NULL
     /\ UNCHANGED <<image, curPath, path, reader, halt>>

\* An unknown descriptor dereferences a null pointer.
VMDirectoryRewind(d) ==
  LET k == findDir(d)
  IN /\ IF k = 0
        THEN halt' = "undefined" /\ UNCHANGED dirs
        ELSE /\ dirs' = [dirs EXCEPT ![k].pos = 0, ![k].seen = <<>>]
             /\ UNCHANGED halt
     /\ fread' = NULL
     /\ UNCHANGED <<image, curPath, path, reader>>

Unmoved == {<<".">>, <<Slash>>, <<".", Slash>>}
Up == <<".", ".">>

\* Mutant: the root is no exception.
NeverAtRoot == FALSE
AtRoot == curPath = <<Slash>>

\* Going up takes the last delimiter away too, and string::erase throws when
\* there is none; it succeeds with VM_STATUS_FAILURE.  Any other argument is
\* appended as it is.
VMDirectoryChange(arg) ==
  /\ arg \notin Unmoved
  /\ IF arg = Up
     THEN /\ ~AtRoot
          /\ IF Delimiters(curPath) = {}
             THEN halt' = "abort" /\ UNCHANGED curPath
             ELSE /\ curPath' = SubSeq(curPath, 1, LastDelimiter(curPath) - 1)
                  /\ UNCHANGED halt
     ELSE /\ Len(curPath) + Len(arg) <= MaxCurrent
          /\ curPath' = curPath \o arg
          /\ UNCHANGED halt
  /\ UNCHANGED <<image, dirs, path, reader, fread>>

-----------------------------------------------------------------------------
(* Files and paths                                                         *)

\* The loop of VMFileOpen over slashfilename: a name without its blanks.
Blankless(name) == SelectSeq(name, LAMBDA c : c # " ")

\* Mutant: the root is no exception.
OpenNameSlash(dir, filename) == Blankless(Append(dir, Slash) \o filename)

\* slashfilename: the name of the file in the directory, without blanks.
OpenName(dir, filename) ==
  Blankless((IF dir = <<Slash>> THEN dir ELSE Append(dir, Slash)) \o filename)

\* VMFileRead of a descriptor above 2 looks for the directory of that
\* descriptor.  One thread at a time is followed through the call: reads do
\* not change what others see.
VMFileReadFind(d, length) ==
  /\ d > 2
  /\ reader = NULL
  /\ reader' = [dir |-> findDir(d), length |-> length]
  /\ fread' = NULL
  /\ UNCHANGED <<image, dirs, curPath, path, halt>>

\* It reads the file the Dir it has found is named after.  Without a Dir it
\* dereferences a null or a dangling pointer.
VMFileRead ==
  /\ reader # NULL
  /\ IF reader.dir = 0
     THEN halt' = "undefined" /\ UNCHANGED fread
     ELSE LET name == dirs[reader.dir].ent
          IN /\ fread' = [name |-> name, length |-> reader.length,
                          read |-> readFromFile(image, name, reader.length)]
             /\ UNCHANGED halt
  /\ reader' = NULL
  /\ UNCHANGED <<image, dirs, curPath, path>>

\* The application follows an argument from where it is.
Follow(arg) ==
  /\ GetAbsolutePath(path, arg).status = "success"
  /\ path' = GetAbsolutePath(path, arg).path
  /\ UNCHANGED <<image, dirs, curPath, reader, fread, halt>>

-----------------------------------------------------------------------------

Init ==
  /\ image \in Images
  /\ dirs = <<>>
  /\ curPath = <<Slash>>
  /\ path = <<Slash>>
  /\ reader = NULL
  /\ fread = NULL
  /\ halt = "no"

Next ==
  /\ halt = "no"
  /\ \/ VMDirectoryOpen
     \/ \E d \in Descs : \/ VMDirectoryClose(d)
                         \/ VMDirectoryRead(d)
                         \/ VMDirectoryRewind(d)
                         \/ \E length \in Lengths : VMFileReadFind(d, length)
     \/ VMFileRead
     \/ \E arg \in Steps : VMDirectoryChange(arg) \/ Follow(arg)

Spec == Init /\ [][Next]_vars

-----------------------------------------------------------------------------
(* Properties                                                              *)

InUse(entries) ==
  Only(entries, {e \in ToSet(image.root) : e.kind = "used" /\ ~e.long})

\* Through a directory each file in use is listed once, in the order of the
\* root, whatever other directories share the descriptor; at the end of the
\* directory all have been listed (VMDirectoryRead, Dir::incPos).  Deleted
\* entries may come in between.
ListsInOrder ==
  \A k \in DOMAIN dirs :
    LET listed == InUse(dirs[k].seen)
        files == InUse(image.root)
    IN /\ IsPrefix(listed, files)
       /\ dirs[k].pos = Len(RootEnts(image)) => listed = files

\* All directories of the root have descriptor 0: only the one that has been
\* open for longest is read, and one opened meanwhile starts from its first
\* entry when its turn comes (findDir, VMDirectoryClose).
YoungerDirsWait ==
  \A j, k \in DOMAIN dirs :
    j < k /\ dirs[j].desc = dirs[k].desc => dirs[k].pos = 0

\* Open directories list the root, each in its turn.
DirectoriesList == ListsInOrder /\ YoungerDirsWait

\* The entry readFromFile has looked at, and a cluster of its chain.
Known == {i \in DOMAIN RootEnts(image) : RootEnts(image)[i].name = fread.name}
ReadEntry == RootEnts(image)[Min(Known)]
ReadChain(j) == Chain(image.fat, ReadEntry.start, j)

\* A read follows the chain of the file: its bytes lie to one another as those
\* of the file do, there are no more than asked for, and a read shorter than
\* was asked and than the file is has come to the end of the chain.  It fails
\* only for an unknown name or a free cluster in the chain (VMFileRead,
\* readFromFile).
ReadsChain ==
  fread # NULL =>
    LET bytes == fread.read.bytes
    IN IF fread.read.ok
       THEN /\ Known # {}
            /\ Len(bytes) <= fread.length
            /\ \A k \in DOMAIN bytes :
                 bytes[k] - bytes[1] =
                   FileByte(image, ReadEntry, k) - FileByte(image, ReadEntry, 1)
            /\ Len(bytes) < Min({ReadEntry.size, fread.length}) =>
                 ReadChain((Len(bytes) \div ClusterSize) + 1) = NoCluster
       ELSE Known = {} \/ \E j \in 1 .. fread.length \div ClusterSize :
              ReadChain(j) # NoCluster /\ image.fat[ReadChain(j)] = Free

\* The bytes read are those of the file, by the place the specification of FAT
\* gives a cluster in the data area (readFromFile, dataStart).
BytesAreTheFiles ==
  fread # NULL /\ fread.read.ok =>
    \A k \in DOMAIN fread.read.bytes :
      fread.read.bytes[k] = FileByte(image, ReadEntry, k)

\* Arguments without two delimiters in a row, and files named by a way down.
PlainSteps == \A arg \in Steps : Plain(arg)
FilesBelow ==
  \A name \in FileNames :
    name # <<>> /\ ~EndsInDelimiter(name) /\ Down(Names(name))

\* VMFileSystemSimplifyPath goes where the names of the relative path lead,
\* and fails only above the root or for want of room.
SimplifiesAsWalk ==
  \A arg \in Steps : IsRelativePath(arg) =>
    LET simple == SimplifyPath(path, arg)
        to == Walk(Names(path), Names(arg))
    IN CASE simple.status = "success" -> /\ to # NoWay
                                         /\ simple.path = PathOf(to)
         [] simple.status = "failure" -> to = NoWay
         [] OTHER -> Len(path) + Len(arg) + 1 > MaxPath

\* The path functions undo one another: the relative path between two
\* directories leads from one to the other, and the directory and the file
\* part of a path put together are the path.
PathsInvert ==
  /\ \A arg \in Steps :
       LET to == GetAbsolutePath(<<Slash>>, arg)
           rel == RelativePath(path, to.path)
           back == SimplifyPath(path, rel.path)
       IN to.status = "success" =>
            /\ rel.status # "failure"
            /\ rel.status = "success" /\ back.status # "invalid" => back = to
  /\ LET joined == ConsolidatePath(DirectoryFromFullPath(path).path,
                                   FileFromFullPath(path).path)
     IN IF Len(path) < MaxPath THEN joined = Success(path)
        ELSE joined.status = "invalid"

\* A path is on a mount point exactly when the names of the mount point begin
\* its names: "/ab" is not on "/a".
MountsByName ==
  \A arg \in Steps :
    LET mount == GetAbsolutePath(<<Slash>>, arg)
    IN mount.status = "success" /\ RelativePath(mount.path, path).status = "success"
         => (PathIsOnMount(mount.path, path)
               <=> IsPrefix(Names(mount.path), Names(path)))

\* Relative paths lead where they say, and tell what is on a mount point.
RelativePathsLead == PathsInvert /\ MountsByName

\* While the working directory is canonical, VMFileOpen opens the file that
\* the path function it replaces would find (the line commented out in it).
OpensInCurrent ==
  \A name \in FileNames :
    LET full == GetAbsolutePath(curPath, <<".", Slash>> \o name)
    IN Canonical(curPath) /\ full.status = "success" =>
         OpenName(curPath, name) = Blankless(full.path)

\* The working directory stops being an absolute path in one way only: it
\* becomes empty on the way up from a directory just under the root.
LeavesRootByParent ==
  [][IsAbsolutePath(curPath) /\ ~IsAbsolutePath(curPath') =>
       /\ curPath' = <<>>
       /\ Len(curPath) > 1 /\ Delimiters(curPath) = {1}]_vars
=============================================================================
