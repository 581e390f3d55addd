----------------------------- MODULE CasefoldCache -----------------------------
(***************************************************************************)
(* Case-insensitive lookups of crosvm's virtio-fs server (ascii_casefold   *)
(* in devices/src/virtio/fs/passthrough.rs): a lookup that fails under the *)
(* name it was given is tried again under the name a per-directory cache   *)
(* has for it. The cache maps a lower-cased name to the name in the        *)
(* directory; it is filled by reading the directory, kept up to date by    *)
(* every request that changes the directory, and dropped when it expires   *)
(* or when the guest forgets the directory.                                *)
(*                                                                         *)
(* A handler holds the lock of the caches over its system call and its     *)
(* update of the cache, which is therefore one step. A lookup is three.    *)
(***************************************************************************)

CONSTANTS
    Workers,    \* worker threads
    Dirs,       \* directories of the shared file system
    Letters,    \* names up to case
    Spellings   \* the spellings a name has

\* A name is a letter and a spelling; its letter is the lower-cased name.
Names == Letters \X Spellings
Lower(n) == n[1]
Like(S, l) == {n \in S : Lower(n) = l}

NoName == <<>>

VARIABLES
    files,      \* the names in each directory
    cached,     \* directories with a CasefoldCache
    cache,      \* their caches: lower-cased name -> name or NoName
    lookup,     \* the lookup each worker is at
    ambiguous   \* history: a directory got two names that differ only in case,
                \* or a rename left its old name in place (RenameInPlace)

vars == <<files, cached, cache, lookup, ambiguous>>

Idle == [pc |-> "idle", d |-> NoName, n |-> NoName, always |-> {}]

Empty == [l \in Letters |-> NoName]

Init ==
    /\ files = [d \in Dirs |-> {}]
    /\ cached = {}
    /\ cache = [d \in Dirs |-> Empty]
    /\ lookup = [w \in Workers |-> Idle]
    /\ ambiguous = FALSE

\* CasefoldCache::insert and remove, on a directory that has a cache (the
\* caches' get_mut finds none otherwise).
CacheInsert(c, d, n) == IF d \in cached THEN [c EXCEPT ![d][Lower(n)] = n] ELSE c

CacheRemove(c, d, n) == IF d \in cached THEN [c EXCEPT ![d][Lower(n)] = NoName] ELSE c

\* History: the names of its directory that a lookup saw there from its start.
Looking(r) == r.pc \in {"exact", "fold", "again"}
Witness(new) ==
    [w \in Workers |->
        IF Looking(lookup[w])
        THEN [lookup[w] EXCEPT !.always = @ \cap new[lookup[w].d]] ELSE lookup[w]]

\* create, mkdir, mknod, symlink and link of a new name.
Create(d, n) ==
    /\ n \notin files[d]
    /\ files' = [files EXCEPT ![d] = @ \cup {n}]
    /\ cache' = CacheInsert(cache, d, n)
    /\ ambiguous' = (ambiguous \/ Like(files[d], Lower(n)) # {})
    /\ lookup' = Witness(files')
    /\ UNCHANGED cached

\* unlink and rmdir.
Unlink(d, n) ==
    /\ n \in files[d]
    /\ files' = [files EXCEPT ![d] = @ \ {n}]
    /\ cache' = CacheRemove(cache, d, n)
    /\ lookup' = Witness(files')
    /\ UNCHANGED <<cached, ambiguous>>

\* rename to a new name, over a name that is there, or onto itself.
Rename(d, n, e, m) ==
    LET gone == [files EXCEPT ![d] = @ \ {n}] IN
    /\ n \in files[d]
    /\ files' = [gone EXCEPT ![e] = @ \cup {m}]
    /\ cache' = CacheInsert(CacheRemove(cache, d, n), e, m)
    /\ ambiguous' = (ambiguous \/ Like(gone[e] \ {m}, Lower(m)) # {})
    /\ lookup' = Witness(files')
    /\ UNCHANGED cached

\* rename that leaves both names in place, with RENAME_EXCHANGE or because they
\* are links of one file: the cache is told of a rename and loses the old name.
RenameInPlace(d, n, e, m) ==
    /\ n \in files[d] /\ m \in files[e] /\ <<d, n>> # <<e, m>>
    /\ cache' = CacheInsert(CacheRemove(cache, d, n), e, m)
    /\ ambiguous' = TRUE
    /\ UNCHANGED <<files, cached, lookup>>

\* The cache's time is over, or the guest forgets the directory.
Drop(d) ==
    /\ d \in cached
    /\ cached' = cached \ {d}
    /\ UNCHANGED <<files, cache, lookup, ambiguous>>

---------------------------------------------------------------------------
StartLookup(w, d, n) ==
    /\ ~Looking(lookup[w])
    /\ lookup' = [lookup EXCEPT ![w] = [pc |-> "exact", d |-> d, n |-> n,
                                        always |-> Like(files[d], Lower(n))]]
    /\ UNCHANGED <<files, cached, cache, ambiguous>>

Result(w, pc) == lookup' = [lookup EXCEPT ![w] = [@ EXCEPT !.pc = pc]]

\* do_lookup under the name the guest gave.
Exact(w) ==
    LET r == lookup[w] IN
    /\ r.pc = "exact"
    /\ Result(w, IF r.n \in files[r.d] THEN "found" ELSE "fold")
    /\ UNCHANGED <<files, cached, cache, ambiguous>>

\* CasefoldCache::new reads the directory: of two names with the same lower
\* case the one read later stays.
Agrees(c, d) ==
    \A l \in Letters :
        IF Like(files[d], l) = {} THEN c[l] = NoName ELSE c[l] \in Like(files[d], l)

\* get_case_unfolded_name.
Unfold(w) ==
    LET r == lookup[w] IN
    /\ r.pc = "fold"
    /\ \E c \in [Letters -> Names \cup {NoName}] :
         /\ IF r.d \in cached THEN c = cache[r.d] ELSE Agrees(c, r.d)
         /\ cache' = [cache EXCEPT ![r.d] = c]
         /\ lookup' = [lookup EXCEPT ![w] =
                IF c[Lower(r.n)] = NoName THEN [@ EXCEPT !.pc = "missing"]
                ELSE [@ EXCEPT !.pc = "again", !.n = c[Lower(r.n)]]]
    /\ cached' = cached \cup {r.d}
    /\ UNCHANGED <<files, ambiguous>>

\* do_lookup under the name the cache has.
Again(w) ==
    LET r == lookup[w] IN
    /\ r.pc = "again"
    /\ Result(w, IF r.n \in files[r.d] THEN "found" ELSE "missing")
    /\ UNCHANGED <<files, cached, cache, ambiguous>>

Next ==
    \/ \E d \in Dirs, n \in Names :
         \/ Create(d, n)
         \/ Unlink(d, n)
         \/ \E e \in Dirs, m \in Names : Rename(d, n, e, m) \/ RenameInPlace(d, n, e, m)
         \/ \E w \in Workers : StartLookup(w, d, n)
    \/ \E d \in Dirs : Drop(d)
    \/ \E w \in Workers : Exact(w) \/ Unfold(w) \/ Again(w)

Spec == Init /\ [][Next]_vars

---------------------------------------------------------------------------
(* The comment at CasefoldCache: while the server alone changes the shared *)
(* directories, a cache covers every name of its directory, up to case,    *)
(* and has no name that is gone, whatever creates, removes and renames     *)
(* came between, as long as no two names differ only in case and no rename *)
(* left its old name in place.                                             *)
CacheExhaustive == ~ambiguous => \A d \in cached : Agrees(cache[d], d)

(* A lookup does not miss a file that had one name, equal up to case to    *)
(* the one looked up, from the lookup's start to its end, under the same   *)
(* condition.                                                              *)
LookupFinds ==
    ~ambiguous => \A w \in Workers : lookup[w].pc = "missing" => lookup[w].always = {}
=============================================================================
