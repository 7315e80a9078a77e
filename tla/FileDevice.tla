---------------------------- MODULE FileDevice ----------------------------
(***************************************************************************)
(* The guest's files: the host-backed file device (kernel/hostfs.rs), with *)
(* its read-only disc and writable hard-disk mounts, its symbolic links    *)
(* and its handle table, behind the Nt* file and Io* link exports          *)
(* (kernel/file.rs and kernel/io.rs).                                      *)
(*                                                                         *)
(* A guest path is a device token and components. A host path is a mount   *)
(* and components; the host tree maps it to Directory or to bytes.         *)
(***************************************************************************)
EXTENDS Integers, Sequences, FiniteSets

CONSTANTS Paths,       \* guest paths a title names: [dev, comps]
          LinkTargets, \* guest paths a title links a drive letter to
          Letters,     \* device tokens a title may use as link names
          HostTrees,   \* the host files at the start: with or without a hard disk
          MaxOpens,    \* handles the instance hands out
          MaxSize,     \* bytes of the largest file
          FileHandleBase, FileHandleStep

\* A host file holds bytes.
ASSUME HostTreesAssumption == \A tree \in HostTrees : \A p \in DOMAIN tree : tree[p] \in Seq(Int)

VARIABLES host,        \* host path -> Directory or a sequence of bytes
          files,       \* handle -> [path, isFile, position, writes]
          links,       \* device token -> guest path
          linkObjects, \* handle -> guest path
          nextHandle,
          io           \* the last call: [call, status, info]

fileVars == <<host, files, links, linkObjects, nextHandle, io>>

Directory == <<-1>>   \* no file holds this
HostPath(root, comps) == [root |-> root, comps |-> comps]
With(f, k, v) == [x \in DOMAIN f \cup {k} |-> IF x = k THEN v ELSE f[x]]
IsFile(tree, p) == p \in DOMAIN tree /\ tree[p] # Directory
NoOffset == -1   \* the file pointer
\* A hard-disk directory is configured.
HasHardDisk == HostPath("hdd", <<>>) \in DOMAIN host

\* apply_links: at most four rewrites of a matching device token.
MaxHops == 4
ApplyLinks(p) ==
    LET hop[n \in 0 .. MaxHops] ==
            IF n = 0 THEN p
            ELSE LET q == hop[n - 1]
                 IN  IF q.dev \in DOMAIN links
                     THEN [dev |-> links[q.dev].dev, comps |-> links[q.dev].comps \o q.comps] ELSE q
    IN  hop[MaxHops]

\* mount_for: the partition, the utility drives, then the disc prefixes.
MountForWritable(p) ==
    [root |-> IF p.dev = "hdd" /\ HasHardDisk THEN "hdd" ELSE "disc", comps |-> p.comps, writable |-> p.dev = "hdd"]
MountFor(p) ==
    CASE p.dev = "hdd" -> IF HasHardDisk THEN [root |-> "hdd", comps |-> p.comps, writable |-> TRUE]
                          ELSE [root |-> "disc", comps |-> p.comps, writable |-> FALSE]
      [] p.dev = "Z" /\ HasHardDisk -> [root |-> "hdd", comps |-> <<"Z">> \o p.comps, writable |-> TRUE]
      [] p.dev \in {"cdrom", "D"} -> [root |-> "disc", comps |-> p.comps, writable |-> FALSE]
      [] OTHER -> [root |-> "none", comps |-> <<>>, writable |-> FALSE]

\* sandbox_components: ".." pops, and a pop of nothing is an escape.
Escape == <<"escape">>
Popped(kept) == IF kept = <<>> THEN Escape ELSE SubSeq(kept, 1, Len(kept) - 1)
SandboxComponents(comps) ==
    LET kept[k \in 0 .. Len(comps)] ==
            IF k = 0 THEN <<>>
            ELSE IF kept[k - 1] = Escape THEN Escape
            ELSE IF comps[k] = ".." THEN Popped(kept[k - 1])
            ELSE IF comps[k] = "." THEN kept[k - 1] ELSE Append(kept[k - 1], comps[k])
    IN  kept[Len(comps)]

\* locate: a host path, whether it exists, and whether its mount is writable.
Nowhere == [path |-> HostPath("none", <<>>), exists |-> FALSE, writable |-> FALSE]
Locate(p) ==
    LET m    == MountFor(ApplyLinks(p))
        kept == SandboxComponents(m.comps)
        path == HostPath(m.root, kept)
    IN  IF m.root = "none" \/ kept = Escape THEN Nowhere
        ELSE [path |-> path, exists |-> path \in DOMAIN host, writable |-> m.writable]

-----------------------------------------------------------------------------
(* Host file system (outside this repository) *)

Ancestors(path) == {HostPath(path.root, SubSeq(path.comps, 1, k)) : k \in 0 .. Len(path.comps) - 1}
CanMakeParents(path) == \A a \in Ancestors(path) : ~IsFile(host, a)
WithParents(path) == [p \in Ancestors(path) \cup DOMAIN host |-> IF p \in DOMAIN host THEN host[p] ELSE Directory]
Bytes0(n) == [k \in 1 .. n |-> 0]
Resized(bytes, n) == SubSeq(bytes \o Bytes0(n), 1, n)
Overlaid(bytes, start, new) ==
    LET base == IF Len(bytes) < start + Len(new) THEN Resized(bytes, start + Len(new)) ELSE bytes
    IN  [k \in DOMAIN base |-> IF k - start \in DOMAIN new THEN new[k - start] ELSE base[k]]

-----------------------------------------------------------------------------
(* Opening *)

Answer(call, status, info) == io' = [call |-> call, status |-> status, info |-> info]
Handed(h, entry) ==
    /\ files' = With(files, h, entry)
    /\ nextHandle' = nextHandle + FileHandleStep
Refused(call, status) == Answer(call, status, 0) /\ UNCHANGED <<host, files, links, linkObjects, nextHandle>>

OpensLeft == nextHandle < FileHandleBase + FileHandleStep * MaxOpens

\* HostFileSystem::open behind file.rs `open_file`.
OpenObject(call, p, write, create, directory) ==
    LET at == Locate(p)
        entry(isFile, w) == [path |-> at.path, isFile |-> isFile, position |-> 0, writes |-> w]
    IN  IF at.path.root = "none" THEN Refused(call, "not_found")
        ELSE IF (write \/ (create /\ ~at.exists)) /\ ~at.writable THEN Refused(call, "denied")
        ELSE IF at.exists
        THEN /\ Handed(nextHandle, entry(IsFile(host, at.path), write /\ IsFile(host, at.path)))
             /\ Answer(call, "success", "opened")
             /\ UNCHANGED <<host, links, linkObjects>>
        ELSE IF ~create THEN Refused(call, "not_found")
        ELSE IF ~CanMakeParents(at.path) THEN Refused(call, "denied")
        ELSE /\ host' = With(WithParents(at.path), at.path, IF directory THEN Directory ELSE <<>>)
             /\ Handed(nextHandle, entry(~directory, ~directory))
             /\ Answer(call, "success", "created")
             /\ UNCHANGED <<links, linkObjects>>

NtOpenFile(p, write, directory) == OpensLeft /\ OpenObject("NtOpenFile", p, write, FALSE, directory)

\* The dispositions: 0 supersede, 1 open, 2 create, 3 open_if, 4 overwrite,
\* 5 overwrite_if.
DispositionWrites(d) == d \in {0, 4, 5}
DispositionCreates(d) == d \in {0, 2, 3, 5}
NtCreateFile(p, write, disposition, directory) ==
    /\ OpensLeft
    /\ OpenObject(IF DispositionWrites(disposition) THEN "overwrite" ELSE "NtCreateFile", p, write \/ DispositionWrites(disposition), DispositionCreates(disposition), directory)

-----------------------------------------------------------------------------
(* Reading and writing *)

StartOf(h, offset) == IF offset = NoOffset THEN files[h].position ELSE offset

\* NtReadFile: what the device returns, and the pointer after it.
Available(bytes, start, n) == SubSeq(bytes, start + 1, IF Len(bytes) < start + n THEN Len(bytes) ELSE start + n)
NtReadFile(h, offset, n) ==
    IF h \notin DOMAIN files THEN Refused("NtReadFile", "invalid_handle")
    ELSE LET data == IF files[h].isFile THEN Available(host[files[h].path], StartOf(h, offset), n) ELSE <<>>
         IN  /\ Answer("NtReadFile", IF data = <<>> /\ n # 0 THEN "end_of_file" ELSE "success", data)
             /\ files' = IF files[h].isFile THEN [files EXCEPT ![h].position = StartOf(h, offset) + Len(data)] ELSE files
             /\ UNCHANGED <<host, links, linkObjects, nextHandle>>

\* NtWriteFile: the guest's bytes are copied out first (readable or not).
MovedByNothing(h, start, count) == files
MovedBy(h, start, count) == [files EXCEPT ![h].position = start + count]
NtWriteFile(h, offset, bytes, readable) ==
    IF bytes # <<>> /\ ~readable THEN Refused("NtWriteFile", "access_violation")
    ELSE IF h \notin DOMAIN files THEN Refused("NtWriteFile", "invalid_handle")
    ELSE IF ~files[h].isFile \/ (~files[h].writes /\ bytes # <<>>) THEN Refused("NtWriteFile", "denied")
    ELSE LET start == StartOf(h, offset)
         IN  /\ start + Len(bytes) <= MaxSize
             /\ host' = IF bytes = <<>> THEN host ELSE [host EXCEPT ![files[h].path] = Overlaid(@, start, bytes)]
             /\ files' = MovedBy(h, start, Len(bytes))
             /\ Answer("NtWriteFile", "success", Len(bytes))
             /\ UNCHANGED <<links, linkObjects, nextHandle>>

\* NtSetInformationFile: the file position or the length; other classes and
\* short buffers are refused.
NtSetInformationFile(h, class, value, long) ==
    IF ~long \/ class = "other" THEN Refused("NtSetInformationFile", "too_small")
    ELSE IF h \notin DOMAIN files THEN Refused("NtSetInformationFile", "invalid_handle")
    ELSE IF class = "position"
    THEN /\ files' = [files EXCEPT ![h].position = value]
         /\ Answer("NtSetInformationFile", "success", 0)
         /\ UNCHANGED <<host, links, linkObjects, nextHandle>>
    ELSE IF ~files[h].isFile \/ ~files[h].writes THEN Refused("NtSetInformationFile", "denied")
    ELSE /\ host' = [host EXCEPT ![files[h].path] = Resized(@, value)]
         /\ Answer("NtSetInformationFile", "success", 0)
         /\ UNCHANGED <<files, links, linkObjects, nextHandle>>

\* NtQueryInformationFile: size, pointer and whether it is a directory.
InfoOf(h) == [size |-> IF files[h].isFile THEN Len(host[files[h].path]) ELSE 0,
              position |-> files[h].position, directory |-> ~files[h].isFile]
NtQueryInformationFile(h, class, long) ==
    IF h \notin DOMAIN files THEN Refused("NtQueryInformationFile", "invalid_handle")
    ELSE IF ~long \/ class = "other" THEN Refused("NtQueryInformationFile", "too_small")
    ELSE Answer("NtQueryInformationFile", "success", InfoOf(h))
         /\ UNCHANGED <<host, files, links, linkObjects, nextHandle>>

\* Device controls and volume queries answer without looking at the handle.
NtDeviceIoControlFile == Refused("NtDeviceIoControlFile", "success")
NtQueryVolumeInformationFile(class, long) ==
    Refused("NtQueryVolumeInformationFile", IF ~long /\ class # "other" THEN "too_small" ELSE "success")

-----------------------------------------------------------------------------
(* Symbolic links and handles *)

IoCreateSymbolicLink(name, target) ==
    /\ links' = With(links, name, target)
    /\ Answer("IoCreateSymbolicLink", "success", 0)
    /\ UNCHANGED <<host, files, linkObjects, nextHandle>>
IoDeleteSymbolicLink(name) ==
    IF name \notin DOMAIN links THEN Refused("IoDeleteSymbolicLink", "not_found")
    ELSE /\ links' = [n \in DOMAIN links \ {name} |-> links[n]]
         /\ Answer("IoDeleteSymbolicLink", "success", 0)
         /\ UNCHANGED <<host, files, linkObjects, nextHandle>>
NtOpenSymbolicLinkObject(name) ==
    /\ OpensLeft
    /\ IF name \notin DOMAIN links THEN Refused("NtOpenSymbolicLinkObject", "not_found")
       ELSE /\ linkObjects' = With(linkObjects, nextHandle, links[name])
            /\ nextHandle' = nextHandle + FileHandleStep
            /\ Answer("NtOpenSymbolicLinkObject", "success", nextHandle)
            /\ UNCHANGED <<host, files, links>>
\* The caller's string takes what fits, and the call says when it did not.
NtQuerySymbolicLinkObject(h, fits) ==
    IF h \notin DOMAIN linkObjects THEN Refused("NtQuerySymbolicLinkObject", "invalid_handle")
    ELSE Answer("NtQuerySymbolicLinkObject", IF fits THEN "success" ELSE "too_small", linkObjects[h])
         /\ UNCHANGED <<host, files, links, linkObjects, nextHandle>>

Forget(f, h) == [k \in DOMAIN f \ {h} |-> f[k]]
\* HostFileSystem::close
CloseFile(h) ==
    /\ files' = Forget(files, h)
    /\ linkObjects' = IF h \in DOMAIN files THEN linkObjects ELSE Forget(linkObjects, h)
    /\ Answer("NtClose", IF h \in DOMAIN files \cup DOMAIN linkObjects THEN "success" ELSE "invalid_handle", 0)
    /\ UNCHANGED <<host, links, nextHandle>>

-----------------------------------------------------------------------------
Handles == {FileHandleBase + FileHandleStep * k : k \in 0 .. MaxOpens}
Contents == {<<>>, <<1, 2>>}
Offsets == {NoOffset, 1}

FileInit ==
    /\ host \in HostTrees
    /\ files = <<>> /\ links = <<>> /\ linkObjects = <<>>
    /\ nextHandle = FileHandleBase
    /\ io = [call |-> "none", status |-> "success", info |-> 0]

FileNext ==
    \/ \E p \in Paths, write \in BOOLEAN, d \in BOOLEAN : NtOpenFile(p, write, d)
    \/ \E p \in Paths, write \in BOOLEAN, c \in 0 .. 5, d \in BOOLEAN : NtCreateFile(p, write, c, d)
    \/ \E h \in Handles, o \in Offsets, n \in {0, 2} : NtReadFile(h, o, n)
    \/ \E h \in Handles, o \in Offsets, b \in Contents, ok \in BOOLEAN : NtWriteFile(h, o, b, ok)
    \/ \E h \in Handles, c \in {"position", "length", "other"}, v \in 0 .. 1, long \in BOOLEAN :
          NtSetInformationFile(h, c, v, long)
    \/ \E h \in Handles, c \in {"standard", "other"}, long \in BOOLEAN : NtQueryInformationFile(h, c, long)
    \/ NtDeviceIoControlFile
    \/ \E c \in {"size", "other"}, long \in BOOLEAN : NtQueryVolumeInformationFile(c, long)
    \/ \E n \in Letters, t \in LinkTargets : IoCreateSymbolicLink(n, t)
    \/ \E n \in Letters : IoDeleteSymbolicLink(n) \/ NtOpenSymbolicLinkObject(n)
    \/ \E h \in Handles, fits \in BOOLEAN : NtQuerySymbolicLinkObject(h, fits)
    \/ \E h \in Handles : CloseFile(h)

FileSpec == FileInit /\ [][FileNext]_fileVars

-----------------------------------------------------------------------------
(* Properties *)

OnDisc(tree) == [p \in {q \in DOMAIN tree : q.root = "disc"} |-> tree[p]]
\* Nothing a title does changes the disc, through drive letters and links it
\* redefines, the partition that falls back to the disc, or creation.
DiscUnchanged == [][OnDisc(host') = OnDisc(host)]_fileVars

\* A write moves only its own handle's pointer, to the end of what it wrote,
\* and leaves every byte of the file outside that range as it was (a gap it
\* jumps over reads as zeros), whatever the file's other handles are doing.
ByteAt(bytes, k) == IF k \in DOMAIN bytes THEN bytes[k] ELSE 0
WriteInRange ==
    io'.call = "NtWriteFile" /\ io'.status = "success" /\ io'.info # 0 =>
        \E h \in DOMAIN files :
            LET p   == files[h].path
                end == files'[h].position
            IN  /\ files[h].writes
                /\ \A g \in DOMAIN files \ {h} : files'[g] = files[g]
                /\ \A q \in DOMAIN host \ {p} : host'[q] = host[q]
                /\ end <= Len(host'[p]) /\ Len(host'[p]) >= Len(host[p])
                /\ \A k \in 1 .. MaxSize : k \notin end - io'.info + 1 .. end =>
                       ByteAt(host'[p], k) = ByteAt(host[p], k)
WritesStayInRange == [][WriteInRange]_fileVars

=============================================================================
