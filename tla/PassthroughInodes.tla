--------------------------- MODULE PassthroughInodes ---------------------------
(***************************************************************************)
(* The inode and handle tables of crosvm's virtio-fs server                *)
(* (devices/src/virtio/fs/passthrough.rs and the requests of               *)
(* fuse/src/server.rs that take or give back lookup references), served by *)
(* several worker threads, one for each queue.                             *)
(*                                                                         *)
(* Every lookup the server answers gives the guest one reference to an     *)
(* inode of the table, and the guest gives references back with forget.    *)
(* A worker's request is a few steps: each system call on the shared       *)
(* directory is one, and so is each section under the lock of `inodes`.    *)
(* The directory belongs to the host's kernel and is modelled from the     *)
(* calls the server makes: a name has an object or None, an object's       *)
(* number is used again once no name and no descriptor refers to it.       *)
(***************************************************************************)
EXTENDS Integers, Sequences, FiniteSets

CONSTANTS
    Workers,        \* worker threads
    Names,          \* file names in the shared directory
    MaxObj,         \* number of objects the host's file system can hold
    MaxRequests,    \* bound on the requests that create or look up entries
    Requests,       \* kinds of request the guest sends
    MayFail,        \* opening a file that exists can fail
    MaxSessions     \* bound on resets of the device

ASSUME RequestsAssumption ==
    Requests \subseteq {"lookup", "make", "link", "tmp", "create", "dirs", "atomic", "excl",
                        "unlink", "rename", "exchange", "open"}

ASSUME SizesAssumption ==
    IsFiniteSet(Workers) /\ IsFiniteSet(Names) /\ MaxObj \in Nat /\ MaxRequests \in Nat

None == 0
Objs == 1 .. MaxObj
\* A request adds an entry for each name at most: no lookup meets this bound.
MaxInode == MaxRequests * Cardinality(Names)
Inodes == 1 .. MaxInode

VARIABLES
    names,      \* the directory: name -> object or None
    inodes,     \* PassthroughFs::inodes: inode -> key (st_ino), file, refcount
    nextInode,  \* PassthroughFs::next_inode
    handles,    \* PassthroughFs::handles: the handles' inode and file
    workers,    \* the request each worker is at
    held,       \* references the guest has from the replies it got
    orphans,    \* references nobody will give back
    raced,      \* a request changed the directory beside another one
    requests,   \* requests so far
    sessions    \* resets so far

vars == <<names, inodes, nextInode, handles, workers, held, orphans, raced, requests, sessions>>

Idle == [pc |-> "idle", op |-> "none", n |-> None, todo |-> {},
         st |-> None, f |-> None, ent |-> 0, got |-> <<>>]

Init ==
    /\ names = [n \in Names |-> None]
    /\ inodes = << >>
    /\ nextInode = 1
    /\ handles = {}
    /\ workers = [w \in Workers |-> Idle]
    /\ held = [i \in Inodes |-> 0]
    /\ orphans = [i \in Inodes |-> 0]
    /\ raced = FALSE
    /\ requests = 0
    /\ sessions = 0

Busy == {w \in Workers : workers[w].pc # "idle"}

\* Objects with a name or an open descriptor; the number of any other is free.
Used == {names[n] : n \in Names} \cup {inodes[i].file : i \in DOMAIN inodes}
        \cup {h.file : h \in handles} \cup {workers[w].f : w \in Workers}

\* The entry of the table with an alternate key, as a set (get_alt).
GetAlt(key) == {i \in DOMAIN inodes : inodes[i].key = key}

Bump(i) == [inodes EXCEPT ![i].refs = @ + 1]

\* MultikeyBTreeMap::insert with a new main key: an entry that has the
\* alternate key gives way.
Insert(key, file) ==
    [i \in (DOMAIN inodes \ GetAlt(key)) \cup {nextInode} |->
        IF i = nextInode THEN [key |-> key, file |-> file, refs |-> 1] ELSE inodes[i]]

---------------------------------------------------------------------------
\* The guest starts a request on an idle worker. A guest that locks the
\* directory runs lookups side by side and everything else alone; one that
\* does not has raced.

Shared(op) == op \in {"lookup", "dirs"}

Start(w, op, n) ==
    /\ op \in Requests
    /\ workers[w].pc = "idle"
    /\ requests < MaxRequests
    /\ raced' = (raced \/ \E b \in Busy : ~(Shared(op) /\ Shared(workers[b].op)))
    /\ requests' = requests + 1

SetWorker(w, r) == workers' = [workers EXCEPT ![w] = r]

Lookup(w, n) ==
    /\ Start(w, "lookup", n)
    /\ SetWorker(w, [Idle EXCEPT !.pc = "stat", !.op = "lookup", !.n = n])
    /\ UNCHANGED <<names, inodes, nextInode, handles, held, orphans, sessions>>

\* atomic_open looks the name up first. "atomic" has O_CREAT, "excl" O_EXCL as
\* well; without O_CREAT it is a lookup and an open.
AtomicOpen(w, op, n) ==
    /\ op \in {"atomic", "excl"}
    /\ Start(w, op, n)
    /\ SetWorker(w, [Idle EXCEPT !.pc = "stat", !.op = op, !.n = n])
    /\ UNCHANGED <<names, inodes, nextInode, handles, held, orphans, sessions>>

\* readdirplus looks up every name the directory has when it is read.
ReadDirPlus(w, n) ==
    LET present == {m \in Names : names[m] # None} IN
    /\ n \in present
    /\ Start(w, "dirs", n)
    /\ SetWorker(w, [Idle EXCEPT !.pc = "stat", !.op = "dirs", !.n = n,
                                 !.todo = present \ {n}])
    /\ UNCHANGED <<names, inodes, nextInode, handles, held, orphans, sessions>>

\* mkdir, mknod and symlink make the object and then look it up.
Make(w, n) ==
    /\ Start(w, "make", n)
    /\ names[n] = None
    /\ \E o \in Objs \ Used : names' = [names EXCEPT ![n] = o]
    /\ SetWorker(w, [Idle EXCEPT !.pc = "stat", !.op = "make", !.n = n])
    /\ UNCHANGED <<inodes, nextInode, handles, held, orphans, sessions>>

\* link gives the file of an inode another name; a file without any has no way back.
Link(w, n, i) ==
    /\ Start(w, "link", n)
    /\ names[n] = None
    /\ held[i] > 0
    /\ i \in DOMAIN inodes
    /\ \E m \in Names : names[m] = inodes[i].file
    /\ names' = [names EXCEPT ![n] = inodes[i].file]
    /\ SetWorker(w, [Idle EXCEPT !.pc = "stat", !.op = "link", !.n = n])
    /\ UNCHANGED <<inodes, nextInode, handles, held, orphans, sessions>>

\* chromeos_tmpfile: the new file has a descriptor and no name.
TmpFile(w, n) ==
    /\ Start(w, "tmp", n)
    /\ \E o \in Objs \ Used :
         SetWorker(w, [Idle EXCEPT !.pc = "add", !.op = "tmp", !.n = n, !.st = o, !.f = o])
    /\ UNCHANGED <<names, inodes, nextInode, handles, held, orphans, sessions>>

Create(w, n) ==
    /\ Start(w, "create", n)
    /\ SetWorker(w, [Idle EXCEPT !.pc = "create", !.op = "create", !.n = n])
    /\ UNCHANGED <<names, inodes, nextInode, handles, held, orphans, sessions>>

\* unlink and rmdir.
Unlink(w, n) ==
    /\ Start(w, "unlink", n)
    /\ names[n] # None
    /\ names' = [names EXCEPT ![n] = None]
    /\ UNCHANGED <<inodes, nextInode, handles, workers, held, orphans, sessions>>

\* rename, over an existing name or exchanging the two (RENAME_EXCHANGE). Two
\* names of one file both stay.
Rename(w, op, n, m) ==
    /\ op \in {"rename", "exchange"}
    /\ Start(w, op, n)
    /\ names[n] # None
    /\ op = "exchange" => names[m] # None
    /\ names' = [names EXCEPT ![m] = names[n],
                             ![n] = IF op = "rename" /\ names[m] # names[n] THEN None ELSE names[m]]
    /\ UNCHANGED <<inodes, nextInode, handles, workers, held, orphans, sessions>>

---------------------------------------------------------------------------
\* The steps of do_lookup and of the requests built on it.

\* Requests whose reply is the entry.
Plain == {"lookup", "make", "link", "tmp"}

Deliver(refs) == held' = [i \in Inodes |-> held[i] + Cardinality({k \in DOMAIN refs : refs[k] = i})]

\* The request has a reference to inode i and goes on.
GotEntry(w, i) ==
    LET r == workers[w]
        pc == IF r.op = "dirs" THEN "fill" ELSE IF r.pc = "addnew" THEN "openat" ELSE "atomic" IN
    IF r.op \in Plain
    THEN Deliver(<<i>>) /\ SetWorker(w, Idle)
    ELSE SetWorker(w, [r EXCEPT !.pc = pc, !.ent = i, !.st = None, !.f = None]) /\ UNCHANGED held

\* The request ends with an error; readdirplus with the entries it has.
Failed(w) == Deliver(workers[w].got) /\ SetWorker(w, Idle)

\* The name is not there: atomic_open creates the file.
NotFound(w) ==
    LET r == workers[w] IN
    IF r.op \in {"atomic", "excl"}
    THEN SetWorker(w, [r EXCEPT !.pc = "create"]) /\ UNCHANGED held
    ELSE Failed(w)

\* statat.
Stat(w) ==
    LET r == workers[w] IN
    /\ r.pc = "stat"
    /\ IF names[r.n] = None
       THEN NotFound(w)
       ELSE SetWorker(w, [r EXCEPT !.pc = "check", !.st = names[r.n]]) /\ UNCHANGED held
    /\ UNCHANGED <<names, inodes, nextInode, handles, orphans, raced, requests, sessions>>

\* Under the lock: an inode that is known gets one more reference.
Check(w) ==
    LET r == workers[w] IN
    /\ r.pc = "check"
    /\ IF GetAlt(r.st) # {}
       THEN \E i \in GetAlt(r.st) : inodes' = Bump(i) /\ GotEntry(w, i)
       ELSE SetWorker(w, [r EXCEPT !.pc = "open"]) /\ UNCHANGED <<inodes, held>>
    /\ UNCHANGED <<names, nextInode, handles, orphans, raced, requests, sessions>>

\* openat, by name again.
OpenFound(w) ==
    LET r == workers[w] IN
    /\ r.pc = "open"
    /\ \/ names[r.n] = None /\ NotFound(w)
       \/ /\ names[r.n] # None
          /\ SetWorker(w, [r EXCEPT !.pc = "add", !.f = names[r.n]])
          /\ UNCHANGED held
       \/ names[r.n] # None /\ MayFail /\ Failed(w)
    /\ UNCHANGED <<names, inodes, nextInode, handles, orphans, raced, requests, sessions>>

AddEntryBlind(w) ==
    LET r == workers[w] IN
    /\ r.pc \in {"add", "addnew"}
    /\ nextInode \in Inodes
    /\ inodes' = Insert(r.st, r.f)
    /\ nextInode' = nextInode + 1
    /\ GotEntry(w, nextInode)
    /\ UNCHANGED <<names, handles, orphans, raced, requests, sessions>>

\* add_entry, under the lock: the entry may have been added meanwhile.
AddEntry(w) ==
    LET r == workers[w] IN
    /\ r.pc \in {"add", "addnew"}
    /\ IF GetAlt(r.st) # {}
       THEN \E i \in GetAlt(r.st) : inodes' = Bump(i) /\ GotEntry(w, i) /\ UNCHANGED nextInode
       ELSE /\ nextInode \in Inodes
            /\ inodes' = Insert(r.st, r.f)
            /\ nextInode' = nextInode + 1
            /\ GotEntry(w, nextInode)
    /\ UNCHANGED <<names, handles, orphans, raced, requests, sessions>>

\* create: openat with O_CREAT, and stat of the descriptor. An atomic_open
\* that is exclusive fails if the file is there by now.
CreateFile(w) ==
    LET r == workers[w] IN
    /\ r.pc = "create"
    /\ \/ /\ names[r.n] = None
          /\ \E o \in Objs \ Used :
               /\ names' = [names EXCEPT ![r.n] = o]
               /\ SetWorker(w, [r EXCEPT !.pc = "addnew", !.st = o, !.f = o])
       \/ /\ names[r.n] # None
          /\ r.op # "excl"
          /\ SetWorker(w, [r EXCEPT !.pc = "addnew", !.st = names[r.n], !.f = names[r.n]])
          /\ UNCHANGED names
       \/ /\ IF names[r.n] = None THEN Objs \subseteq Used ELSE r.op = "excl"
          /\ SetWorker(w, Idle)
          /\ UNCHANGED names
    /\ UNCHANGED <<inodes, nextInode, handles, held, orphans, raced, requests, sessions>>

NewHandle(i, o) == handles' = handles \cup {[inode |-> i, file |-> o]}

\* do_open_at: the handle's file is opened by name, and the reply carries
\* entry and handle.
OpenAt(w) ==
    LET r == workers[w] IN
    /\ r.pc = "openat"
    /\ \/ /\ names[r.n] # None
          /\ NewHandle(r.ent, names[r.n])
          /\ Deliver(<<r.ent>>)
          /\ SetWorker(w, Idle)
       \/ /\ names[r.n] = None \/ MayFail
          /\ SetWorker(w, [r EXCEPT !.pc = "undo"])
          /\ UNCHANGED <<handles, held>>
    /\ UNCHANGED <<names, inodes, nextInode, orphans, raced, requests, sessions>>

\* forget_one: the table with count references of an inode given back.
ForgetOne(tab, i, count) ==
    IF i \notin DOMAIN tab THEN tab
    ELSE IF tab[i].refs <= count THEN [j \in DOMAIN tab \ {i} |-> tab[j]]
    ELSE [tab EXCEPT ![i].refs = @ - count]

\* The request drops the reference it took, and ends with those it delivers.
Undo(w) ==
    LET r == workers[w] IN
    /\ r.pc = "undo"
    /\ inodes' = ForgetOne(inodes, r.ent, 1)
    /\ Deliver(r.got)
    /\ SetWorker(w, Idle)
    /\ UNCHANGED <<names, nextInode, handles, orphans, raced, requests, sessions>>

\* atomic_open of a file that exists: an exclusive one fails, the other opens
\* it, and the entry of a symbolic link is the reply to both. One that fails
\* keeps the reference of its lookup.
AtomicFound(w) ==
    LET r == workers[w] IN
    /\ r.pc = "atomic"
    /\ \/ /\ r.op = "excl" \/ MayFail
          /\ orphans' = [orphans EXCEPT ![r.ent] = @ + 1]
          /\ UNCHANGED <<handles, held>>
       \/ /\ r.op # "excl"
          /\ \E i \in DOMAIN inodes : i = r.ent /\ NewHandle(i, inodes[i].file)
          /\ Deliver(<<r.ent>>)
          /\ UNCHANGED orphans
       \/ Deliver(<<r.ent>>) /\ UNCHANGED <<handles, orphans>>
    /\ SetWorker(w, Idle)
    /\ UNCHANGED <<names, inodes, nextInode, raced, requests, sessions>>

\* readdirplus puts the entry into the reply, if there is room, and goes on.
FillDirent(w) ==
    LET r == workers[w]
        got == Append(r.got, r.ent) IN
    /\ r.pc = "fill"
    /\ \/ /\ SetWorker(w, [r EXCEPT !.pc = "undo"])
          /\ UNCHANGED held
       \/ /\ \E m \in r.todo :
               SetWorker(w, [r EXCEPT !.pc = "stat", !.n = m, !.todo = @ \ {m},
                                      !.got = got, !.ent = 0])
          /\ UNCHANGED held
       \/ /\ r.todo = {}
          /\ Deliver(got)
          /\ SetWorker(w, Idle)
    /\ UNCHANGED <<names, inodes, nextInode, handles, orphans, raced, requests, sessions>>

---------------------------------------------------------------------------
\* Requests about inodes and handles.

\* forget of references the guest has.
Forget(i, count) ==
    /\ count \in 1 .. held[i]
    /\ held' = [held EXCEPT ![i] = @ - count]
    /\ inodes' = ForgetOne(inodes, i, count)
    /\ UNCHANGED <<names, nextInode, handles, workers, orphans, raced, requests, sessions>>

\* batch_forget of everything the guest holds.
BatchForget ==
    /\ Cardinality({i \in Inodes : held[i] > 0}) > 1
    /\ held' = [i \in Inodes |-> 0]
    /\ inodes' = [i \in {j \in DOMAIN inodes : inodes[j].refs > held[j]} |->
                    [inodes[i] EXCEPT !.refs = @ - held[i]]]
    /\ UNCHANGED <<names, nextInode, handles, workers, orphans, raced, requests, sessions>>

\* open and opendir of an inode the guest holds.
Open(i) ==
    /\ "open" \in Requests
    /\ held[i] > 0
    /\ i \in DOMAIN inodes
    /\ NewHandle(i, inodes[i].file)
    /\ UNCHANGED <<names, inodes, nextInode, workers, held, orphans, raced, requests, sessions>>

\* release and releasedir.
Release(h) ==
    /\ handles' = handles \ {h}
    /\ UNCHANGED <<names, inodes, nextInode, workers, held, orphans, raced, requests, sessions>>

\* The guest unmounts: FUSE_DESTROY clears both tables. It is the guest's last
\* request and waits for the answers to the others.
Destroy ==
    /\ Busy = {}
    /\ inodes # << >>
    /\ sessions < MaxSessions
    /\ sessions' = sessions + 1
    /\ handles' = {}
    /\ inodes' = << >>
    /\ held' = [i \in Inodes |-> 0]
    /\ orphans' = [i \in Inodes |-> 0]
    /\ UNCHANGED <<names, nextInode, workers, raced, requests>>

ResetRestarts ==
    /\ Busy = {}
    /\ sessions < MaxSessions
    /\ sessions' = sessions + 1
    /\ orphans' = [i \in Inodes |-> orphans[i] + held[i]]
    /\ held' = [i \in Inodes |-> 0]
    /\ nextInode' = 1
    /\ UNCHANGED <<names, inodes, handles, workers, raced, requests>>

\* The device is reset without FUSE_DESTROY and started by the next guest
\* program: the workers end, the server keeps its tables.
Reset ==
    /\ Busy = {}
    /\ sessions < MaxSessions
    /\ sessions' = sessions + 1
    /\ orphans' = [i \in Inodes |-> orphans[i] + held[i]]
    /\ held' = [i \in Inodes |-> 0]
    /\ UNCHANGED <<names, inodes, nextInode, handles, workers, raced, requests>>

Next ==
    \/ \E w \in Workers, n \in Names :
         \/ Lookup(w, n)
         \/ \E op \in {"atomic", "excl"} : AtomicOpen(w, op, n)
         \/ ReadDirPlus(w, n)
         \/ Make(w, n)
         \/ \E i \in Inodes : Link(w, n, i)
         \/ TmpFile(w, n)
         \/ Create(w, n)
         \/ Unlink(w, n)
         \/ \E op \in {"rename", "exchange"}, m \in Names \ {n} : Rename(w, op, n, m)
    \/ \E w \in Workers :
         \/ Stat(w)
         \/ Check(w)
         \/ OpenFound(w)
         \/ AddEntry(w)
         \/ CreateFile(w)
         \/ OpenAt(w)
         \/ Undo(w)
         \/ AtomicFound(w)
         \/ FillDirent(w)
    \/ \E i \in Inodes : \E count \in 1 .. held[i] : Forget(i, count)
    \/ BatchForget
    \/ \E i \in Inodes : Open(i)
    \/ \E h \in handles : Release(h)
    \/ Destroy
    \/ Reset

Spec == Init /\ [][Next]_vars

---------------------------------------------------------------------------
\* Where a request under way keeps references to an inode it took and did not
\* reply yet, and the number of these references over all requests.
Places(r, i) == (IF r.ent = i THEN {0} ELSE {}) \cup {k \in DOMAIN r.got : r.got[k] = i}
InHand(i) == Cardinality(UNION {{w} \X Places(workers[w], i) : w \in Workers})

\* An inode's refcount is the number of references the guest has, those of
\* requests that did not reply yet, and those nobody will give back: of a
\* guest that reset the device, and of an atomic_open that failed on a file
\* it had looked up. No other error path, no forget that crosses a lookup on
\* another worker and no entry that two workers add at once loses a reference
\* or keeps one too many.
RefsAccounted ==
    \A i \in Inodes :
        held[i] + InHand(i) + orphans[i] = IF i \in DOMAIN inodes THEN inodes[i].refs ELSE 0

\* For a guest that locks its directories, an entry's descriptor is open on
\* the file the entry is for (its key), and the handles of an inode in the
\* table are open on that file as well, though statat and openat find the
\* file by name one after the other.
EntryIsFile ==
    ~raced => /\ \A i \in DOMAIN inodes : inodes[i].file = inodes[i].key
              /\ \A h \in handles : h.inode \in DOMAIN inodes => h.file = inodes[h.inode].key

=============================================================================
