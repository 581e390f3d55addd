----------------------------- MODULE VirtioFsFiles -----------------------------
(***************************************************************************)
(* The file protocol of the firmware's virtio-fs driver                    *)
(* (GunyahPkg/Drivers/GunyahVirtioFsDxe) over a FUSE server.               *)
(*                                                                         *)
(* An open file has the canonical pathname it was opened by, the server's  *)
(* node it stands for, with one lookup reference to give back, and a FUSE  *)
(* handle. Every operation on files is a sequence of FUSE requests, any of *)
(* which the server can refuse; the driver runs an operation to its end    *)
(* before the next. The server is modelled by what its requests do         *)
(* (crosvm's is the module PassthroughInodes): a tree of nodes, and for    *)
(* every node the lookups and the open handles it counts for the driver.   *)
(***************************************************************************)
EXTENDS Integers, Sequences, FiniteSets, SequencesExt

CONSTANTS
    Names,          \* file names
    MaxNodes,       \* bound on the server's nodes
    MaxDepth,       \* bound on the length of a pathname
    Slots,          \* room for the files open at once
    MaxRefused      \* bound on the refused requests of one operation

Root == 0
None == -1
Nodes == 1 .. MaxNodes
Dirs == Nodes \cup {Root}
Paths == UNION {[1 .. k -> Names] : k \in 0 .. MaxDepth}

\* The requests and checks of an operation that can fail are numbered; no
\* operation has more of them than this.
MaxSteps == 2 * MaxDepth + 3
Refusals == {S \in SUBSET (1 .. MaxSteps) : Cardinality(S) <= MaxRefused}

VARIABLES
    srv,        \* the server: tree, kind, nlookup, fh
    files,      \* VIRTIO_FS.OpenFiles: slot -> open file or Closed
    shared      \* the kinds of nodes that an application has ever had open twice

vars == <<srv, files, shared>>

Closed == [path |-> <<>>, node |-> None, dir |-> FALSE, write |-> FALSE]
IsOpen(f) == files[f].node # None

Init ==
    /\ srv = [tree |-> [e \in Dirs \X Names |-> None], kind |-> [n \in Nodes |-> "file"],
              nlookup |-> [n \in Nodes |-> 0], fh |-> [n \in Dirs |-> 0]]
    /\ files = [f \in Slots |-> Closed]
    /\ shared = {}

---------------------------------------------------------------------------
\* The server. An operation carries r: the server s, the number k of the
\* step it is at, the steps bad that are refused, and its status st.

Begin(bad) == [s |-> srv, k |-> 0, bad |-> bad, st |-> "ok", node |-> Root]

Ok(r) == r.st = "ok"
Count(r) == [r EXCEPT !.k = @ + 1]
Refused(r) == r.k + 1 \in r.bad
Fail(r, st) == [Count(r) EXCEPT !.st = st]

IsDir(s, n) == n = Root \/ s.kind[n] = "dir"
Free(s) == {n \in Nodes : s.nlookup[n] = 0 /\ s.fh[n] = 0 /\ \A e \in DOMAIN s.tree : s.tree[e] # n}

\* A step that only succeeds or fails.
Check(r, holds) == IF Refused(r) \/ ~holds THEN Fail(r, "denied") ELSE Count(r)

FuseLookup(r, d, name) ==
    LET n == r.s.tree[<<d, name>>] IN
    IF Refused(r) THEN Fail(r, "error")
    ELSE IF n = None THEN Fail(r, "notfound")
    ELSE [Count(r) EXCEPT !.node = n, !.s.nlookup[n] = @ + 1]

\* VirtioFsFuseForget, which the driver never calls for the root.
FuseForget(r, n) == IF n = Root THEN r ELSE [r EXCEPT !.s.nlookup[n] = @ - 1]

FuseOpen(r, n) == IF Refused(r) THEN Fail(r, "error") ELSE [Count(r) EXCEPT !.s.fh[n] = @ + 1]

FuseRelease(r, n) == [r EXCEPT !.s.fh[n] = @ - 1]

\* FUSE_MKDIR and the entry part of FUSE_CREATE.
FuseMake(r, d, name, kind) ==
    IF Refused(r) \/ Free(r.s) = {} \/ r.s.tree[<<d, name>>] # None THEN Fail(r, "error")
    ELSE LET n == CHOOSE n \in Free(r.s) : TRUE IN
         [Count(r) EXCEPT !.node = n, !.s.tree[<<d, name>>] = n, !.s.kind[n] = kind,
                          !.s.nlookup[n] = 1]

\* FUSE_UNLINK and FUSE_RMDIR.
FuseRemove(r, d, name, dir) ==
    LET n == r.s.tree[<<d, name>>] IN
    IF \/ Refused(r) \/ n = None \/ (n # None /\ IsDir(r.s, n) # dir)
       \/ (n # None /\ \E m \in Names : r.s.tree[<<n, m>>] # None)
    THEN Fail(r, "error")
    ELSE [Count(r) EXCEPT !.s.tree[<<d, name>>] = None]

\* The node at a path below a node, or None.
RECURSIVE At(_, _, _)
At(s, n, path) ==
    IF path = <<>> \/ n = None THEN n
    ELSE IF IsDir(s, n) THEN At(s, s.tree[<<n, Head(path)>>], Tail(path)) ELSE None

Resolve(s, path) == At(s, Root, path)

RECURSIVE Below(_, _, _)
Below(s, n, e) ==
    n = e \/ \E name \in Names : LET c == s.tree[<<n, name>>] IN c # None /\ Below(s, c, e)

\* FUSE_RENAME2 with RENAME_NOREPLACE: not below itself.
FuseRename(r, d, name, e, to) ==
    LET n == r.s.tree[<<d, name>>] IN
    IF Refused(r) \/ n = None \/ r.s.tree[<<e, to>>] # None \/ (n # None /\ Below(r.s, n, e))
    THEN Fail(r, "error")
    ELSE [Count(r) EXCEPT !.s.tree[<<d, name>>] = None, !.s.tree[<<e, to>>] = n]

\* The server after an operation; what kind a free node had is of no interest.
Server(r) == [r.s EXCEPT !.kind = [n \in Nodes |-> IF n \in Free(r.s) THEN "file" ELSE @[n]]]

---------------------------------------------------------------------------
\* The driver's steps.

\* From a directory to the next on a path, giving back the former.
NextDir(r, name) ==
    LET next == FuseForget(FuseLookup(r, r.node, name), r.node) IN
    IF ~Ok(next) THEN next
    ELSE LET dir == Check(next, IsDir(next.s, next.node)) IN
         IF Ok(dir) THEN dir ELSE FuseForget(dir, dir.node)

\* VirtioFsLookupMostSpecificParentDir: look up the directory of the last
\* component, holding one reference at a time.
RECURSIVE Walk(_, _)
Walk(r, path) ==
    IF Len(path) <= 1 \/ ~Ok(r) THEN r ELSE Walk(NextDir(r, Head(path)), Tail(path))

OpenExistentLeaks(r, d, name) ==
    LET found == FuseLookup(r, d, name) IN
    IF ~Ok(found) THEN found
    ELSE LET attr == Check(found, TRUE) IN
         IF ~Ok(attr) THEN FuseForget(attr, found.node) ELSE FuseOpen(attr, found.node)

\* OpenExistentFileOrDirectory; the check is the attributes' conversion and
\* the test for a read-only file.
OpenExistent(r, d, name) ==
    LET found == FuseLookup(r, d, name) IN
    IF ~Ok(found) THEN found
    ELSE LET attr == Check(found, TRUE)
             opened == IF Ok(attr) THEN FuseOpen(attr, found.node) ELSE attr IN
         IF Ok(opened) THEN opened ELSE FuseForget(opened, found.node)

\* CreateDirectory removes the directory that it cannot open.
CreateDirectory(r, d, name) ==
    LET made == FuseMake(r, d, name, "dir") IN
    IF ~Ok(made) THEN made
    ELSE LET opened == FuseOpen(made, made.node) IN
         IF Ok(opened) THEN opened
         ELSE [FuseForget(FuseRemove(opened, d, name, TRUE), made.node) EXCEPT !.st = "error"]

\* CreateRegularFile: FUSE_CREATE makes and opens in one request.
CreateRegularFile(r, d, name) ==
    LET made == FuseMake(r, d, name, "file") IN
    IF Ok(made) THEN [made EXCEPT !.s.fh[made.node] = 1] ELSE made

Shares(s, n) ==
    IF n # Root /\ \E f \in Slots : files[f].node = n THEN shared \cup {s.kind[n]} ELSE shared

Put(f, path, r, dir, write) ==
    files' = [files EXCEPT ![f] = [path |-> path, node |-> r.node, dir |-> dir, write |-> write]]

\* VirtioFsOpenVolume, and VirtioFsSimpleFileOpen of the root.
OpenRoot(f, write, bad) ==
    LET attr == IF write THEN Check(Begin(bad), TRUE) ELSE Begin(bad)
        r == IF Ok(attr) THEN FuseOpen(attr, Root) ELSE attr IN
    /\ ~IsOpen(f)
    /\ srv' = Server(r)
    /\ IF Ok(r) THEN Put(f, <<>>, r, TRUE, write) ELSE UNCHANGED files
    /\ UNCHANGED shared

\* VirtioFsSimpleFileOpen of another path, for reading, for writing or with
\* leave to create a file or a directory.
Open(f, path, mode, bad) ==
    LET d == Walk(Begin(bad), path)
        there == IF Ok(d) THEN OpenExistent(d, d.node, Last(path)) ELSE d
        retry == Ok(d) /\ there.st = "notfound" /\ mode \in {"mkdir", "create"}
        again == [there EXCEPT !.st = "ok"]
        r == IF ~retry THEN there
             ELSE IF mode = "mkdir" THEN CreateDirectory(again, d.node, Last(path))
             ELSE CreateRegularFile(again, d.node, Last(path))
        done == IF Ok(d) THEN FuseForget(r, d.node) ELSE r IN
    /\ ~IsOpen(f)
    /\ \E g \in Slots : IsOpen(g)
    /\ srv' = Server(done)
    /\ IF Ok(done) THEN /\ Put(f, path, done, IsDir(done.s, done.node), mode # "read")
                        /\ shared' = Shares(done.s, done.node)
       ELSE UNCHANGED <<files, shared>>

\* VirtioFsSimpleFileClose: flush, sync, release and forget, whatever fails.
Close(f) ==
    LET r == FuseForget(FuseRelease(Begin({}), files[f].node), files[f].node) IN
    /\ IsOpen(f)
    /\ srv' = Server(r)
    /\ files' = [files EXCEPT ![f] = Closed]
    /\ UNCHANGED shared

\* VirtioFsSimpleFileDelete: release, remove by pathname, forget and close.
Delete(f, bad) ==
    LET file == files[f]
        released == FuseRelease(Begin(bad), file.node)
        remove == file.write /\ file.path # <<>>
        d == Walk(released, file.path)
        gone == FuseForget(FuseRemove(d, d.node, Last(file.path), file.dir), d.node)
        r == IF ~remove THEN released ELSE IF Ok(d) THEN gone ELSE d IN
    /\ IsOpen(f)
    /\ srv' = Server(FuseForget(r, file.node))
    /\ files' = [files EXCEPT ![f] = Closed]
    /\ UNCHANGED shared

BreaksSame(f, g) == f # g /\ IsOpen(g) /\ files[f].path = files[g].path

\* The test in Rename: another open file at or below the directory's path.
Breaks(f, g) == f # g /\ IsOpen(g) /\ IsPrefix(files[f].path, files[g].path)

RenameKeepsOld(f, to, bad) ==
    LET file == files[f]
        d == Walk(Begin(bad), file.path)
        e == Walk([d EXCEPT !.node = Root], to)
        moved == FuseRename(e, d.node, Last(file.path), e.node, Last(to))
        r == IF ~Ok(d) THEN d
             ELSE IF ~Ok(e) THEN FuseForget(e, d.node)
             ELSE FuseForget(FuseForget(moved, e.node), d.node) IN
    /\ IsOpen(f)
    /\ file.path \notin {<<>>, to}
    /\ file.dir => \A g \in Slots : ~Breaks(f, g)
    /\ file.write
    /\ srv' = Server(r)
    /\ UNCHANGED <<files, shared>>

\* Rename, by SetInfo with another file name.
Rename(f, to, bad) ==
    LET file == files[f]
        d == Walk(Begin(bad), file.path)
        e == Walk([d EXCEPT !.node = Root], to)
        moved == FuseRename(e, d.node, Last(file.path), e.node, Last(to))
        r == IF ~Ok(d) THEN d
             ELSE IF ~Ok(e) THEN FuseForget(e, d.node)
             ELSE FuseForget(FuseForget(moved, e.node), d.node) IN
    /\ IsOpen(f)
    /\ file.path \notin {<<>>, to}
    /\ file.dir => \A g \in Slots : ~Breaks(f, g)
    /\ file.write
    /\ srv' = Server(r)
    /\ files' = IF Ok(r) THEN [files EXCEPT ![f].path = to] ELSE files
    /\ UNCHANGED shared

Next ==
    \E f \in Slots :
        \/ Close(f)
        \/ \E bad \in Refusals :
             \/ \E write \in BOOLEAN : OpenRoot(f, write, bad)
             \/ \E path \in Paths \ {<<>>}, mode \in {"read", "write", "mkdir", "create"} :
                  Open(f, path, mode, bad)
             \/ Delete(f, bad)
             \/ \E to \in Paths \ {<<>>} : Rename(f, to, bad)

Spec == Init /\ [][Next]_vars

---------------------------------------------------------------------------
OpenOn(n) == Cardinality({f \in Slots : files[f].node = n})

\* Between operations the server counts one lookup and one handle for every
\* open file of a node and none for any other, whichever requests of the
\* operations before were refused: no error path keeps a node or a handle
\* and none gives one back that another file needs.
LookupsBalanced ==
    /\ \A n \in Nodes : srv.nlookup[n] = OpenOn(n)
    /\ \A n \in Dirs : srv.fh[n] = OpenOn(n)

\* "Check if the rename would break the canonical pathnames of other
\* VIRTIO_FS_FILE instances": no operation but a removal changes what the
\* canonical pathname of a file that stays open stands for, as long as no
\* regular file was open twice.
PathsKept ==
    []["file" \notin shared =>
       \A f \in Slots :
          LET file == files[f] IN
          /\ IsOpen(f)
          /\ Resolve(srv, file.path) = file.node
          /\ files'[f].node = file.node
          => \/ Resolve(srv', files'[f].path) = file.node
             \/ \A e \in DOMAIN srv'.tree : srv'.tree[e] # file.node]_vars

\* Deleting an open file removes the node that it has open, if any, as long
\* as no node was open twice.
DeletesOwn ==
    [][shared = {} =>
       \A n \in Nodes :
          (/\ \E e \in DOMAIN srv.tree : srv.tree[e] = n
           /\ \A e \in DOMAIN srv'.tree : srv'.tree[e] # n)
          => \E f \in Slots : files[f].node = n /\ ~(files'[f].node = n)]_vars

=============================================================================
