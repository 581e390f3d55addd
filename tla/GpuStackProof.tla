----------------------------- MODULE GpuStackProof -----------------------------
(* Theorems about GpuStack for any modes, stores, ids, sizes and displays.      *)
EXTENDS GpuStack, TLAPS

-------------------------------------------------------------------------------
(* The device. *)

AllIds == Ids \cup {None, 1, 2}
Backing == Stores \cup {NoStore}
Resource == [size : Nat, backing : Backing, offset : Offsets \cup {None}, ext : BOOLEAN]
HostKinds == {"2d", "fd", "ptr"}
Host == [size : Nat, kind : HostKinds, info : BOOLEAN, backing : Backing, mapped : BOOLEAN]
Output == [size : Nat, res : AllIds, surface : BOOLEAN]
Mapping == [blob : AllIds, listed : BOOLEAN, twice : BOOLEAN]

IsDevice(d) ==
    /\ d = [res |-> d.res, host |-> d.host, outs |-> d.outs, shm |-> d.shm, event |-> d.event]
    /\ d.res \in [DOMAIN d.res -> Resource] /\ None \notin DOMAIN d.res
    /\ d.host \in [DOMAIN d.host -> Host]
    /\ d.outs \in [DOMAIN d.outs -> Output]
    /\ d.shm \in [Offsets -> Mapping]
    /\ d.event \in BOOLEAN

(* What BooksAgree says, of any device.                                         *)
Placed(d, id) ==
    LET o == d.res[id].offset
    IN  (o # None /\ d.shm[o].listed /\ ~d.shm[o].twice) => d.shm[o].blob = id
Books(d) ==
    /\ DOMAIN d.res \subseteq DOMAIN d.host
    /\ \A id \in DOMAIN d.host \ DOMAIN d.res : d.host[id].mapped
    /\ \A id \in DOMAIN d.res :
        /\ d.host[id].size = d.res[id].size
        /\ d.host[id].backing \in {d.res[id].backing, NoStore}
        /\ d.res[id].ext => d.host[id].mapped
        /\ Placed(d, id)

(* A record that stays is right where nothing changed.                          *)
LEMMA SamePlaced ==
    ASSUME NEW d, NEW e, NEW i, Placed(d, i), e.shm = d.shm, e.res[i].offset = d.res[i].offset
    PROVE  Placed(e, i)
  BY Zenon DEF Placed

(* A command that leaves the tables alone but for the info_2d of the renderer.  *)
SameTables(d, e) ==
    /\ e.res = d.res /\ e.shm = d.shm
    /\ DOMAIN e.host = DOMAIN d.host
    /\ \A i \in DOMAIN d.host :
        /\ e.host[i].size = d.host[i].size /\ e.host[i].kind = d.host[i].kind
        /\ e.host[i].backing = d.host[i].backing /\ e.host[i].mapped = d.host[i].mapped

(* Such a command keeps the tables in agreement.                                *)
LEMMA SameTablesBooks ==
    ASSUME NEW d, NEW e, Books(d), SameTables(d, e)
    PROVE  Books(e)
<1>1. \A i \in DOMAIN d.res : Placed(e, i)
  BY SamePlaced, Zenon DEF Books, SameTables
<1> QED
  BY <1>1, Zenon DEF Books, SameTables

(* A reply is a device and a verdict.                                           *)
LEMMA RefusedIs ==
    ASSUME NEW d, NEW r \in Refused(d)
    PROVE  r.dev = d /\ r.ok = FALSE
  BY DEF Refused, Reply

(* A command that succeeds.                                                     *)
LEMMA DoneIs ==
    ASSUME NEW d, NEW r \in Done(d)
    PROVE  r.dev = d /\ r.ok = TRUE
  BY DEF Done, Reply

Created(d, id, size, kind, r) ==
    /\ r.ok \in BOOLEAN /\ (~r.ok => r.dev = d)
    /\ r.ok => /\ r.dev.res = Put(d.res, id, NewResource(size))
               /\ r.dev.host = Put(d.host, id, NewHost(size, kind))
               /\ r.dev.outs = d.outs
    /\ IsDevice(r.dev) /\ Books(r.dev)
(* Creating a resource puts the new resource in both tables, or in neither.     *)
LEMMA CreateIs ==
    ASSUME NEW d, IsDevice(d), Books(d), NEW id, id # None, NEW size \in Nat, NEW kind \in HostKinds,
           NEW r \in Create(d, id, size, kind)
    PROVE  Created(d, id, size, kind, r)
<1>1. CASE id \in DOMAIN d.host
  <2>1. r \in Refused(d)
    BY <1>1, Zenon DEF Create
  <2>2. r.dev = d /\ r.ok = FALSE
    BY <2>1, RefusedIs, Zenon
  <2> QED
    BY <2>2, Zenon DEF Created
<1>2. CASE id \notin DOMAIN d.host
  <2>1. r \in Done([d EXCEPT !.res = Put(@, id, NewResource(size)), !.host = Put(@, id, NewHost(size, kind))])
    BY <1>2, Zenon DEF Create
  <2> DEFINE e == r.dev
  <2>2. /\ r.ok = TRUE
        /\ e = [d EXCEPT !.res = Put(d.res, id, NewResource(size)), !.host = Put(d.host, id, NewHost(size, kind))]
    BY <2>1, DoneIs, Zenon
  <2>3. /\ e = [res |-> e.res, host |-> e.host, outs |-> e.outs, shm |-> e.shm, event |-> e.event]
        /\ e.res = Put(d.res, id, NewResource(size)) /\ e.host = Put(d.host, id, NewHost(size, kind))
        /\ e.outs = d.outs /\ e.shm = d.shm /\ e.event = d.event
    BY <2>2, Zenon DEF IsDevice
  <2>4. NewResource(size) \in Resource /\ NewHost(size, kind) \in Host
    BY DEF NewResource, NewHost, Resource, Host, Backing
  <2> HIDE DEF e
  <2>5. /\ DOMAIN e.res = DOMAIN d.res \cup {id} /\ DOMAIN e.host = DOMAIN d.host \cup {id}
        /\ e.res[id] = NewResource(size) /\ e.host[id] = NewHost(size, kind)
        /\ \A i \in DOMAIN d.res : i # id => e.res[i] = d.res[i]
        /\ \A i \in DOMAIN d.host : i # id => e.host[i] = d.host[i]
        /\ e.res \in [DOMAIN e.res -> Resource] /\ e.host \in [DOMAIN e.host -> Host]
    BY <2>3, <2>4 DEF Put, IsDevice
  <2>6. IsDevice(e)
    BY <2>3, <2>5 DEF IsDevice
  <2>7. Books(e)
    <3>1. DOMAIN e.res \subseteq DOMAIN e.host /\ id \notin DOMAIN d.res
      BY <1>2, <2>5 DEF Books
    <3>2. ASSUME NEW i \in DOMAIN d.res
          PROVE  e.res[i] = d.res[i] /\ e.host[i] = d.host[i]
      BY <1>2, <2>5, <3>1 DEF Books
    <3>3. /\ e.host[id].size = e.res[id].size /\ e.host[id].backing = e.res[id].backing
          /\ ~e.res[id].ext /\ e.res[id].offset = None
      BY <2>5 DEF NewResource, NewHost
    <3>4. \A i \in DOMAIN e.res : Placed(e, i)
      <4>1. Placed(e, id)
        BY <3>3 DEF Placed
      <4>2. ASSUME NEW i \in DOMAIN d.res PROVE Placed(e, i)
        BY <2>3, <3>2, SamePlaced, Zenon DEF Books
      <4> QED
        BY <2>5, <4>1, <4>2
    <3>5. \A i \in DOMAIN e.host \ DOMAIN e.res : e.host[i].mapped
      BY <2>5, Zenon DEF Books
    <3> QED
      BY <2>3, <2>5, <3>1, <3>2, <3>3, <3>4, <3>5 DEF Books
  <2> QED
    BY <1>2, <2>2, <2>3, <2>6, <2>7, Zenon DEF e, Created
<1> QED
  BY <1>1, <1>2

(* Attaching and detaching memory changes a resource in both tables, or in      *)
(* neither.                                                                     *)
LEMMA SetBackingIs ==
    ASSUME NEW d, IsDevice(d), Books(d), NEW id, NEW store \in Backing,
           NEW r \in SetBacking(d, id, store)
    PROVE  /\ r.ok \in BOOLEAN /\ (~r.ok => r.dev = d)
           /\ r.ok => /\ id \in DOMAIN d.res
                      /\ r.dev.res = [d.res EXCEPT ![id].backing = store]
                      /\ r.dev.host = [d.host EXCEPT ![id].backing = store]
                      /\ r.dev.outs = d.outs
           /\ IsDevice(r.dev) /\ Books(r.dev)
<1>1. CASE id \notin DOMAIN d.res \/ id \notin DOMAIN d.host
  <2>1. r \in Refused(d)
    BY <1>1, Zenon DEF SetBacking
  <2>2. r.dev = d /\ r.ok = FALSE
    BY <2>1, RefusedIs, Zenon
  <2> QED
    BY <2>2, Zenon
<1>2. CASE id \in DOMAIN d.res /\ id \in DOMAIN d.host
  <2>1. r \in Done([d EXCEPT !.res[id].backing = store, !.host[id].backing = store])
    BY <1>2, Zenon DEF SetBacking
  <2> DEFINE e == r.dev
  <2>2. r.ok = TRUE /\ e = [d EXCEPT !.res[id].backing = store, !.host[id].backing = store]
    BY <2>1, DoneIs, Zenon
  <2>3. /\ e = [res |-> e.res, host |-> e.host, outs |-> e.outs, shm |-> e.shm, event |-> e.event]
        /\ e.res = [d.res EXCEPT ![id].backing = store] /\ e.host = [d.host EXCEPT ![id].backing = store]
        /\ e.outs = d.outs /\ e.shm = d.shm /\ e.event = d.event
    BY <2>2, Zenon DEF IsDevice
  <2> HIDE DEF e
  <2>4. /\ DOMAIN e.res = DOMAIN d.res /\ DOMAIN e.host = DOMAIN d.host
        /\ e.res \in [DOMAIN e.res -> Resource] /\ e.host \in [DOMAIN e.host -> Host]
    <3>1. /\ e.res = [d.res EXCEPT ![id] = [d.res[id] EXCEPT !.backing = store]]
          /\ e.host = [d.host EXCEPT ![id] = [d.host[id] EXCEPT !.backing = store]]
      BY <2>3
    <3>2. [d.res[id] EXCEPT !.backing = store] \in Resource
      BY <1>2 DEF IsDevice, Resource
    <3>3. [d.host[id] EXCEPT !.backing = store] \in Host
      BY <1>2 DEF IsDevice, Host
    <3> QED
      BY <3>1, <3>2, <3>3, Zenon DEF IsDevice
  <2>5. /\ e.res[id].backing = store /\ e.host[id].backing = store
        /\ \A i \in DOMAIN d.res : /\ e.res[i].size = d.res[i].size /\ e.res[i].ext = d.res[i].ext
                                   /\ e.res[i].offset = d.res[i].offset
                                   /\ i # id => e.res[i].backing = d.res[i].backing
        /\ \A i \in DOMAIN d.host : /\ e.host[i].size = d.host[i].size
                                    /\ e.host[i].mapped = d.host[i].mapped
                                    /\ i # id => e.host[i].backing = d.host[i].backing
    BY <2>3, <1>2 DEF IsDevice, Resource, Host
  <2>6. IsDevice(e)
    BY <2>3, <2>4 DEF IsDevice
  <2>7. Books(e)
    <3>1. \A i \in DOMAIN e.res : Placed(e, i)
      BY <2>3, <2>4, <2>5, SamePlaced, Zenon DEF Books
    <3>2. \A i \in DOMAIN e.host \ DOMAIN e.res : e.host[i].mapped
      BY <2>4, <2>5, Zenon DEF Books
    <3>3. \A i \in DOMAIN e.res : e.res[i].ext => e.host[i].mapped
      BY <2>4, <2>5, Zenon DEF Books
    <3> QED
      BY <2>3, <2>4, <2>5, <3>1, <3>2, <3>3 DEF Books
  <2> QED
    BY <1>2, <2>2, <2>3, <2>6, <2>7, Zenon DEF e
<1> QED
  BY <1>1, <1>2

(* unref_resource takes a resource out of the frontend's table, and out of the  *)
(* renderer's unless that fails to unmap it.                                    *)
LEMMA UnrefIs ==
    ASSUME NEW d, IsDevice(d), Books(d), NEW id, NEW r \in UnrefResource(d, id)
    PROVE  /\ r.ok \in BOOLEAN
           /\ ~r.ok => r.dev = d \/ (id \in DOMAIN d.res /\ d.res[id].ext)
           /\ r.ok => /\ id \in DOMAIN d.res /\ r.dev.res = Drop(d.res, id)
                      /\ r.dev.host = Drop(d.host, id) /\ r.dev.outs = d.outs
           /\ IsDevice(r.dev) /\ Books(r.dev)
<1>1. CASE id \notin DOMAIN d.res
  <2>1. r \in Refused(d)
    BY <1>1, Zenon DEF UnrefResource
  <2>2. r.dev = d /\ r.ok = FALSE
    BY <2>1, RefusedIs, Zenon
  <2> QED
    BY <2>2, Zenon
<1>2. CASE id \in DOMAIN d.res
  <2> DEFINE gone == [d EXCEPT !.res = Drop(@, id)]
             both == [gone EXCEPT !.host = Drop(@, id)]
  <2>1. r \in Done(both) \/ (d.res[id].ext /\ r \in Refused(gone))
    BY <1>2 DEF UnrefResource
  <2>2. /\ gone = [res |-> Drop(d.res, id), host |-> d.host, outs |-> d.outs, shm |-> d.shm, event |-> d.event]
        /\ both = [res |-> Drop(d.res, id), host |-> Drop(d.host, id), outs |-> d.outs, shm |-> d.shm,
                   event |-> d.event]
    <3>1. d = [res |-> d.res, host |-> d.host, outs |-> d.outs, shm |-> d.shm, event |-> d.event]
      BY DEF IsDevice
    <3>2. gone = [res |-> Drop(d.res, id), host |-> d.host, outs |-> d.outs, shm |-> d.shm, event |-> d.event]
      BY <3>1
    <3> HIDE DEF gone
    <3> QED
      BY <3>2
  <2> HIDE DEF gone, both
  <2>3. /\ DOMAIN Drop(d.res, id) = DOMAIN d.res \ {id} /\ DOMAIN Drop(d.host, id) = DOMAIN d.host \ {id}
        /\ \A i \in DOMAIN d.res : i # id => Drop(d.res, id)[i] = d.res[i]
        /\ \A i \in DOMAIN d.host : i # id => Drop(d.host, id)[i] = d.host[i]
        /\ Drop(d.res, id) \in [DOMAIN Drop(d.res, id) -> Resource]
        /\ Drop(d.host, id) \in [DOMAIN Drop(d.host, id) -> Host]
    BY DEF Drop, IsDevice
  <2>4. IsDevice(gone) /\ IsDevice(both)
    BY <2>2, <2>3 DEF IsDevice
  <2>5. (d.res[id].ext => Books(gone)) /\ Books(both)
    <3>1. /\ gone.res = Drop(d.res, id) /\ gone.host = d.host /\ gone.shm = d.shm
          /\ both.res = Drop(d.res, id) /\ both.host = Drop(d.host, id) /\ both.shm = d.shm
      BY <2>2
    <3>2. ASSUME NEW i \in DOMAIN d.res \ {id} PROVE Placed(gone, i) /\ Placed(both, i)
      <4>1. Placed(d, i) /\ Drop(d.res, id)[i] = d.res[i]
        BY <2>3, <3>2 DEF Books
      <4> QED
        BY <3>1, <4>1, SamePlaced, Zenon
    <3>3. d.res[id].ext => \A i \in DOMAIN gone.host \ DOMAIN gone.res : gone.host[i].mapped
      BY <1>2, <2>3, <3>1, Zenon DEF Books
    <3>4. \A i \in DOMAIN both.host \ DOMAIN both.res : both.host[i].mapped
      BY <2>3, <3>1, Zenon DEF Books
    <3> QED
      BY <1>2, <2>3, <3>1, <3>2, <3>3, <3>4 DEF Books
  <2>6. CASE r \in Done(both)
    <3>1. r.dev = both /\ r.ok = TRUE
      BY <2>6, DoneIs, Zenon
    <3>2. both.res = Drop(d.res, id) /\ both.host = Drop(d.host, id) /\ both.outs = d.outs
      BY <2>2
    <3> QED
      BY <1>2, <2>4, <2>5, <3>1, <3>2, Zenon
  <2>7. CASE d.res[id].ext /\ r \in Refused(gone)
    <3>1. r.dev = gone /\ r.ok = FALSE
      BY <2>7, RefusedIs, Zenon
    <3> QED
      BY <1>2, <2>7, <2>4, <2>5, <3>1, Zenon
  <2> QED
    BY <2>1, <2>6, <2>7
<1> QED
  BY <1>1, <1>2

(* What setting a scanout leaves. *)
Scanned(d, s, id, size, r) ==
    /\ r.ok \in BOOLEAN
    /\ r.dev.res = d.res /\ r.dev.host = d.host /\ DOMAIN r.dev.outs = DOMAIN d.outs
    /\ r.ok => s \in DOMAIN d.outs /\ r.dev.outs[s].res = id
    /\ r.ok /\ id # None => r.dev.outs[s].surface /\ r.dev.outs[s].size = size
    /\ ~r.ok => \A t \in DOMAIN d.outs : r.dev.outs[t].res = d.outs[t].res
    /\ ~r.ok => r.dev = d \/ ~r.dev.outs[s].surface
    /\ IsDevice(r.dev) /\ Books(r.dev)

(* A scanout is disabled, or shows the resource, or its surface is lost; the    *)
(* tables stay.                                                                 *)
LEMMA SetScanoutIs ==
    ASSUME NEW d, IsDevice(d), Books(d), NEW s, NEW id \in AllIds, NEW size, id # None => size \in Nat,
           NEW r \in SetScanout(d, s, id, size)
    PROVE  Scanned(d, s, id, size, r)
<1> USE DEF Scanned
<1>1. CASE s \notin DOMAIN d.outs \/ (id # None /\ id \notin DOMAIN d.res)
  <2>1. r \in Refused(d)
    BY <1>1, Zenon DEF SetScanout
  <2>2. r.dev = d /\ r.ok = FALSE
    BY <2>1, RefusedIs, Zenon
  <2> QED
    BY <2>2, Zenon
<1> DEFINE With(o) == [d EXCEPT !.outs = [d.outs EXCEPT ![s] = o]]
<1>2. ASSUME s \in DOMAIN d.outs, NEW o \in Output
      PROVE  /\ IsDevice(With(o)) /\ Books(With(o))
             /\ With(o).res = d.res /\ With(o).host = d.host /\ DOMAIN With(o).outs = DOMAIN d.outs
             /\ With(o).outs[s] = o /\ \A t \in DOMAIN d.outs : t # s => With(o).outs[t] = d.outs[t]
  <2> DEFINE e == With(o)
  <2>1. /\ e = [res |-> e.res, host |-> e.host, outs |-> e.outs, shm |-> e.shm, event |-> e.event]
        /\ e.res = d.res /\ e.host = d.host /\ e.shm = d.shm /\ e.event = d.event
        /\ e.outs = [d.outs EXCEPT ![s] = o]
    BY <1>2 DEF IsDevice
  <2> HIDE DEF e
  <2>2. /\ DOMAIN e.outs = DOMAIN d.outs /\ e.outs \in [DOMAIN e.outs -> Output]
        /\ e.outs[s] = o /\ \A t \in DOMAIN d.outs : t # s => e.outs[t] = d.outs[t]
    BY <1>2, <2>1 DEF IsDevice
  <2>3. IsDevice(e)
    BY <2>1, <2>2 DEF IsDevice
  <2>4. SameTables(d, e)
    BY <2>1 DEF SameTables
  <2> QED
    BY <2>1, <2>2, <2>3, <2>4, SameTablesBooks DEF e
<1>3. CASE s \in DOMAIN d.outs /\ id = None
  <2> DEFINE o == [d.outs[s] EXCEPT !.res = None, !.surface = FALSE]
             e == IF d.outs[s].res # None THEN [d EXCEPT !.outs[s].res = None, !.outs[s].surface = FALSE] ELSE d
  <2>1. r \in Done(e)
    BY <1>3 DEF SetScanout, DisableScanout
  <2>2. r.dev = e /\ r.ok = TRUE
    BY <2>1, DoneIs, Zenon
  <2>3. CASE d.outs[s].res # None
    <3>1. e = With(o) /\ o \in Output /\ o.res = None
      BY <1>3, <2>3, Zenon DEF IsDevice, Output, AllIds
    <3> HIDE DEF o, e, With
    <3>2. /\ IsDevice(e) /\ Books(e) /\ e.res = d.res /\ e.host = d.host
          /\ DOMAIN e.outs = DOMAIN d.outs /\ e.outs[s] = o
      BY <1>2, <1>3, <3>1, Zenon
    <3> QED
      BY <1>3, <2>2, <3>1, <3>2, Zenon
  <2>4. CASE d.outs[s].res = None
    BY <1>3, <2>2, <2>4, Zenon
  <2> QED
    BY <2>3, <2>4
<1>4. CASE s \in DOMAIN d.outs /\ id # None /\ id \in DOMAIN d.res
  <2>1. PICK q \in CreateSurface(d, s, size) :
            r = IF q.ok THEN Reply([q.dev EXCEPT !.outs[s].res = id], TRUE) ELSE q
    BY <1>4, Zenon DEF SetScanout
  <2> DEFINE lost == [d.outs[s] EXCEPT !.size = size, !.surface = FALSE]
             made == [d.outs[s] EXCEPT !.size = size, !.surface = TRUE]
             released == [d EXCEPT !.outs[s].size = size, !.outs[s].surface = FALSE]
             renewed == [released EXCEPT !.outs[s].surface = TRUE]
  <2>2. \/ q \in Done(d) /\ d.outs[s].surface /\ d.outs[s].size = size
        \/ q \in Done(renewed)
        \/ q \in Refused(released)
    BY <2>1 DEF CreateSurface, NeedSurface
  <2>3. /\ released = With(lost)
        /\ renewed = With(made)
        /\ lost \in Output /\ made \in Output /\ lost.res = d.outs[s].res
        /\ lost.surface = FALSE /\ made.surface = TRUE /\ made.size = size
    BY <1>4, Zenon DEF IsDevice, Output
  <2> HIDE DEF lost, made, released, renewed, With
  <2>4. CASE q \in Refused(released)
    <3>1. q.dev = released /\ q.ok = FALSE
      BY <2>4, RefusedIs, Zenon
    <3>2. r.dev = released /\ r.ok = FALSE
      BY <2>1, <3>1, Zenon
    <3>3. /\ IsDevice(released) /\ Books(released) /\ released.res = d.res /\ released.host = d.host
          /\ DOMAIN released.outs = DOMAIN d.outs
          /\ released.outs[s] = lost /\ \A t \in DOMAIN d.outs : t # s => released.outs[t] = d.outs[t]
      BY <1>2, <1>4, <2>3, Zenon
    <3>4. \A t \in DOMAIN d.outs : released.outs[t].res = d.outs[t].res
      BY <2>3, <3>3
    <3> QED
      BY <2>3, <3>2, <3>3, <3>4, Zenon
  <2>5. ASSUME NEW o \in Output, q.dev = With(o), q.ok = TRUE
        PROVE  /\ r.ok = TRUE /\ r.dev.outs[s].res = id
               /\ r.dev.outs[s].surface = o.surface /\ r.dev.outs[s].size = o.size
               /\ r.dev.res = d.res /\ r.dev.host = d.host /\ DOMAIN r.dev.outs = DOMAIN d.outs
               /\ IsDevice(r.dev) /\ Books(r.dev)
    <3> DEFINE p == [o EXCEPT !.res = id]
    <3>1. r.ok = TRUE /\ r.dev = [With(o) EXCEPT !.outs[s].res = id]
      BY <2>1, <2>5 DEF Reply
    <3>2. p \in Output /\ p.res = id /\ p.surface = o.surface /\ p.size = o.size
      BY DEF Output
    <3>3. r.dev = With(p)
      BY <1>4, <3>1, Zenon DEF IsDevice, With
    <3> HIDE DEF p
    <3> QED
      BY <1>2, <1>4, <3>1, <3>2, <3>3
  <2>6. CASE q \in Done(renewed)
    <3>1. q.dev = renewed /\ q.ok = TRUE
      BY <2>6, DoneIs, Zenon
    <3> QED
      BY <1>4, <2>3, <2>5, <3>1, Zenon
  <2>7. CASE q \in Done(d) /\ d.outs[s].surface /\ d.outs[s].size = size
    <3>1. q.dev = d /\ q.ok = TRUE
      BY <2>7, DoneIs, Zenon
    <3>2. d = With(d.outs[s]) /\ d.outs[s] \in Output
      BY <1>4 DEF IsDevice, With
    <3> QED
      BY <1>4, <2>5, <2>7, <3>1, <3>2, Zenon
  <2> QED
    BY <2>2, <2>4, <2>6, <2>7
<1> QED
  BY <1>1, <1>3, <1>4

(* A change of one resource of the renderer that takes nothing away but its     *)
(* info_2d and its backing.                                                     *)
LEMMA HostChange ==
    ASSUME NEW d, IsDevice(d), Books(d), NEW id \in DOMAIN d.host, NEW h \in Host,
           h.size = d.host[id].size, h.kind = d.host[id].kind, h.mapped = d.host[id].mapped,
           h.backing \in {d.host[id].backing, NoStore},
           NEW e, e = [d EXCEPT !.host = [d.host EXCEPT ![id] = h]]
    PROVE  /\ IsDevice(e) /\ Books(e) /\ e.res = d.res /\ e.outs = d.outs
           /\ h.backing = d.host[id].backing => SameTables(d, e)
<1>1. /\ e = [res |-> e.res, host |-> e.host, outs |-> e.outs, shm |-> e.shm, event |-> e.event]
      /\ e.res = d.res /\ e.outs = d.outs /\ e.shm = d.shm /\ e.event = d.event
      /\ e.host = [d.host EXCEPT ![id] = h]
  BY DEF IsDevice
<1>2. /\ DOMAIN e.host = DOMAIN d.host /\ e.host \in [DOMAIN e.host -> Host]
      /\ e.host[id] = h /\ \A i \in DOMAIN d.host : i # id => e.host[i] = d.host[i]
  BY <1>1 DEF IsDevice
<1>3. IsDevice(e)
  BY <1>1, <1>2, Zenon DEF IsDevice
<1>4. Books(e)
  <2>1. \A i \in DOMAIN d.res : /\ e.host[i].size = d.host[i].size /\ e.host[i].mapped = d.host[i].mapped
                                /\ e.host[i].backing \in {d.host[i].backing, NoStore}
    BY <1>2 DEF Books
  <2>2. \A i \in DOMAIN e.res : Placed(e, i)
    BY <1>1, SamePlaced, Zenon DEF Books
  <2>3. \A i \in DOMAIN e.host : e.host[i].mapped = d.host[i].mapped
    BY <1>2
  <2>4. \A i \in DOMAIN e.host \ DOMAIN e.res : e.host[i].mapped
    BY <1>1, <1>2, <2>3, Zenon DEF Books
  <2>5. ASSUME NEW i \in DOMAIN e.res, e.res[i].ext PROVE e.host[i].mapped
    <3>1. i \in DOMAIN e.host /\ d.host[i].mapped
      BY <1>1, <1>2, <2>5, Zenon DEF Books
    <3> QED
      BY <2>3, <3>1, Zenon
  <2> QED
    BY <1>1, <1>2, <2>1, <2>2, <2>4, <2>5 DEF Books
<1>5. h.backing = d.host[id].backing => SameTables(d, e)
  BY <1>1, <1>2 DEF SameTables
<1> QED
  BY <1>1, <1>3, <1>4, <1>5

(* A transfer that stays inside leaves the backing where it is.                 *)
LEMMA TransferIs ==
    ASSUME NEW d, IsDevice(d), Books(d), NEW id, NEW inside \in BOOLEAN,
           NEW r \in TransferWrite(d, id, inside)
    PROVE  /\ r.ok \in BOOLEAN
           /\ IsDevice(r.dev) /\ Books(r.dev) /\ r.dev.outs = d.outs
           /\ inside => SameTables(d, r.dev)
<1>0. SameTables(d, d)
  BY DEF SameTables
<1>1. CASE id \notin DOMAIN d.host
  <2>1. r \in Refused(d)
    BY <1>1, Zenon DEF TransferWrite
  <2>2. r.dev = d /\ r.ok = FALSE
    BY <2>1, RefusedIs, Zenon
  <2> QED
    BY <1>0, <2>2, Zenon
<1>2. CASE id \in DOMAIN d.host
  <2> DEFINE h == d.host[id]
             g == [h EXCEPT !.info = FALSE, !.backing = IF h.info THEN NoStore ELSE @]
             e == [d EXCEPT !.host[id].info = FALSE, !.host[id].backing = IF h.info THEN NoStore ELSE @]
  <2>1. CASE h.info /\ h.backing # NoStore /\ inside
    <3>1. r \in Done(d)
      BY <1>2, <2>1 DEF TransferWrite
    <3>2. r.dev = d /\ r.ok = TRUE
      BY <3>1, DoneIs, Zenon
    <3> QED
      BY <1>0, <3>2, Zenon
  <2>2. CASE ~(h.info /\ h.backing # NoStore /\ inside)
    <3>1. r \in Refused(e)
      BY <1>2, <2>2 DEF TransferWrite
    <3>2. r.dev = e /\ r.ok = FALSE
      BY <3>1, RefusedIs, Zenon
    <3>3. /\ g \in Host /\ e = [d EXCEPT !.host = [d.host EXCEPT ![id] = g]]
          /\ g.size = h.size /\ g.kind = h.kind /\ g.mapped = h.mapped /\ g.backing \in {h.backing, NoStore}
          /\ inside => g.backing = h.backing
      BY <1>2, <2>2, Zenon DEF IsDevice, Host, Backing
    <3> HIDE DEF e, g
    <3>4. /\ IsDevice(e) /\ Books(e) /\ e.res = d.res /\ e.outs = d.outs
          /\ g.backing = h.backing => SameTables(d, e)
      BY <1>2, <3>3, HostChange
    <3> QED
      BY <3>2, <3>3, <3>4, Zenon
  <2> QED
    BY <2>1, <2>2
<1> QED
  BY <1>1, <1>2

(* A flush may cost the renderer its info_2d and nothing else.                  *)
LEMMA FlushIs ==
    ASSUME NEW d, IsDevice(d), Books(d), NEW id, NEW r \in FlushResource(d, id)
    PROVE  /\ r.ok \in BOOLEAN
           /\ IsDevice(r.dev) /\ Books(r.dev) /\ r.dev.outs = d.outs /\ SameTables(d, r.dev)
<1>0. SameTables(d, d)
  BY DEF SameTables
<1> DEFINE lost == [d EXCEPT !.host[id].info = FALSE]
<1>1. r \in Done(d) \/ r \in Refused(d) \/ (id \in DOMAIN d.host /\ (r \in Done(lost) \/ r \in Refused(lost)))
  <2>1. ASSUME NEW s, r \in Misread(d, s, id)
        PROVE  r \in Done(lost) \/ r \in Refused(lost)
    BY <2>1 DEF Misread
  <2>2. \/ r \in Done(d) \/ r \in Refused(d)
        \/ id \in DOMAIN d.host /\ \E s : r \in Misread(d, s, id)
    <3>1. CASE id \notin DOMAIN d.host \/ id \notin DOMAIN d.res
      BY <3>1, Zenon DEF FlushResource
    <3>2. CASE id \in DOMAIN d.host /\ id \in DOMAIN d.res
      <4> DEFINE A == IF Shown(d, id) # {} THEN Refused(d) ELSE {}
                 B == UNION {Misread(d, s, id) : s \in Misfits(d, id)}
      <4>1. FlushResource(d, id) = Done(d) \union A \union B
        BY <3>2 DEF FlushResource
      <4>2. r \in A => r \in Refused(d)
        OBVIOUS
      <4>3. r \in B => \E s : r \in Misread(d, s, id)
        OBVIOUS
      <4> HIDE DEF A, B
      <4> QED
        BY <3>2, <4>1, <4>2, <4>3, Zenon
    <3> QED
      BY <3>1, <3>2
  <2> HIDE DEF lost
  <2> QED
    BY <2>1, <2>2
<1>2. r.ok \in BOOLEAN /\ (r.dev = d \/ (id \in DOMAIN d.host /\ r.dev = lost))
  <2> HIDE DEF lost
  <2> QED
    BY <1>1, DoneIs, RefusedIs, Zenon
<1>3. ASSUME id \in DOMAIN d.host
      PROVE  IsDevice(lost) /\ Books(lost) /\ lost.outs = d.outs /\ SameTables(d, lost)
  <2> DEFINE h == d.host[id]
             g == [h EXCEPT !.info = FALSE]
  <2>1. /\ g \in Host /\ lost = [d EXCEPT !.host = [d.host EXCEPT ![id] = g]]
        /\ g.size = h.size /\ g.kind = h.kind /\ g.mapped = h.mapped /\ g.backing = h.backing
    BY <1>3, Zenon DEF IsDevice, Host
  <2> HIDE DEF lost, g
  <2> QED
    BY <1>3, <2>1, HostChange
<1> HIDE DEF lost
<1> QED
  BY <1>0, <1>2, <1>3

(* resource_map_blob gives the resource and the slot of the region each other.  *)
LEMMA MapIs ==
    ASSUME NEW d, IsDevice(d), Books(d), NEW id \in AllIds, NEW o \in Offsets,
           NEW r \in ResourceMapBlob(d, id, o)
    PROVE  IsDevice(r.dev) /\ Books(r.dev)
<1>1. CASE id \notin DOMAIN d.res \/ d.host[id].kind = "2d"
  <2>1. r \in Refused(d)
    BY <1>1, Zenon DEF ResourceMapBlob
  <2>2. r.dev = d
    BY <2>1, RefusedIs, Zenon
  <2> QED
    BY <2>2
<1>2. CASE id \in DOMAIN d.res /\ d.host[id].kind # "2d"
  <2> DEFINE ext == [d EXCEPT !.res[id].ext = TRUE, !.host[id].mapped = TRUE]
             src == IF Exported(d.host[id]) THEN d ELSE ext
             at == [blob |-> id, listed |-> TRUE,
                    twice |-> d.shm[o].twice \/ \E j \in DOMAIN src.res \ {id} : src.res[j].offset = o]
             put == [src EXCEPT !.shm[o] = at]
             e == [put EXCEPT !.res[id].offset = o]
  <2>0. src.shm = d.shm
    BY Zenon DEF IsDevice
  <2>2. id \in DOMAIN d.host
    BY <1>2 DEF Books
  <2>3. IsDevice(src) /\ Books(src) /\ DOMAIN src.res = DOMAIN d.res /\ src.shm = d.shm
    <3>1. CASE Exported(d.host[id])
      BY <3>1
    <3>2. CASE ~Exported(d.host[id])
      <4>1. src = ext
        BY <3>2
      <4> DEFINE a == [d.res[id] EXCEPT !.ext = TRUE]
                 h == [d.host[id] EXCEPT !.mapped = TRUE]
      <4>2. /\ a \in Resource /\ a.size = d.res[id].size /\ a.backing = d.res[id].backing
            /\ a.offset = d.res[id].offset
        <5>1. d.res[id] \in Resource
          BY <1>2 DEF IsDevice
        <5> QED
          BY Zenon, <5>1 DEF Resource
      <4>8. h \in Host /\ h.size = d.host[id].size /\ h.backing = d.host[id].backing /\ h.mapped = TRUE
        <5>1. d.host[id] \in Host
          BY <2>2 DEF IsDevice
        <5> QED
          BY Zenon, <5>1 DEF Host
      <4>0. ext = [d EXCEPT !.res[id].ext = TRUE, !.host[id].mapped = TRUE]
        OBVIOUS
      <4> HIDE DEF ext, src
      <4>3. /\ ext = [res |-> ext.res, host |-> ext.host, outs |-> ext.outs, shm |-> ext.shm, event |-> ext.event]
            /\ ext.outs = d.outs /\ ext.shm = d.shm /\ ext.event = d.event
            /\ ext.res = [d.res EXCEPT ![id].ext = TRUE] /\ ext.host = [d.host EXCEPT ![id].mapped = TRUE]
        BY <4>0, Zenon DEF IsDevice
      <4>4. ext.res = [d.res EXCEPT ![id] = a] /\ ext.host = [d.host EXCEPT ![id] = h]
        BY <4>3
      <4> HIDE DEF a, h
      <4>5. /\ DOMAIN ext.res = DOMAIN d.res /\ DOMAIN ext.host = DOMAIN d.host
            /\ ext.res \in [DOMAIN ext.res -> Resource] /\ ext.host \in [DOMAIN ext.host -> Host]
            /\ ext.res[id] = a /\ \A i \in DOMAIN d.res : i # id => ext.res[i] = d.res[i]
            /\ ext.host[id] = h /\ \A i \in DOMAIN d.host : i # id => ext.host[i] = d.host[i]
        BY <1>2, <2>2, <4>2, <4>4, <4>8 DEF IsDevice
      <4>6. IsDevice(ext)
        BY <4>3, <4>5 DEF IsDevice
      <4>7. Books(ext)
        <5>1. ASSUME NEW i \in DOMAIN ext.res PROVE Placed(ext, i)
          <6>1. Placed(d, i) /\ ext.res[i].offset = d.res[i].offset
            BY <4>2, <4>5, Zenon DEF Books
          <6> QED
            BY <4>3, <6>1, SamePlaced, Zenon
        <5>2. \A i \in DOMAIN ext.host \ DOMAIN ext.res : ext.host[i].mapped
          BY <1>2, <4>5, Zenon DEF Books
        <5>3. \A i \in DOMAIN ext.res : ext.res[i].ext => ext.host[i].mapped
          BY <2>2, <4>5, <4>8, Zenon DEF Books
        <5> QED
          BY <1>2, <2>2, <4>2, <4>3, <4>5, <4>8, <5>1, <5>2, <5>3 DEF Books
      <4> QED
        BY <4>1, <4>3, <4>5, <4>6, <4>7
    <3> QED
      BY <3>1, <3>2
  <2> HIDE DEF src
  <2>4. src.shm[o] \in Mapping /\ at \in Mapping
    BY <2>3 DEF IsDevice, Mapping
  <2>5. put = [src EXCEPT !.shm[o] = at] /\ e = [put EXCEPT !.res[id].offset = o]
    OBVIOUS
  <2>6. at.blob = id /\ at.listed = TRUE
    OBVIOUS
  <2>7. ASSUME NEW j \in DOMAIN src.res, j # id, src.res[j].offset = o
        PROVE  at.twice
    BY <2>7
  <2>8. r.dev = d \/ r.dev = src \/ r.dev = e
    <3>1. \/ r \in Refused(d)
          \/ \E q \in AddMapping(src, id, o) :
                r = IF q.ok THEN Reply([q.dev EXCEPT !.res[id].offset = o], TRUE) ELSE q
      BY <1>2, Zenon DEF ResourceMapBlob, src, ext
    <3>2. CASE r \in Refused(d)
      BY <3>2, RefusedIs, Zenon
    <3>3. ASSUME NEW q \in AddMapping(src, id, o),
                 r = IF q.ok THEN Reply([q.dev EXCEPT !.res[id].offset = o], TRUE) ELSE q
          PROVE  r.dev = src \/ r.dev = e
      <4>1. q \in Done(put) \/ q \in Refused(src)
        BY <2>0 DEF AddMapping
      <4> HIDE DEF put, at
      <4>2. (q.dev = put /\ q.ok = TRUE) \/ (q.dev = src /\ q.ok = FALSE)
        BY <4>1, DoneIs, RefusedIs, Zenon
      <4>3. CASE q.dev = src /\ q.ok = FALSE
        BY <3>3, <4>3, Zenon
      <4>4. CASE q.dev = put /\ q.ok = TRUE
        <5>1. r = Reply(e, TRUE)
          BY <2>5, <3>3, <4>4, Zenon
        <5> HIDE DEF e
        <5> QED
          BY <5>1 DEF Reply
      <4> QED
        BY <4>2, <4>3, <4>4
    <3> QED
      BY <3>1, <3>2, <3>3, Zenon
  <2> HIDE DEF at, put, e
  <2>9. IsDevice(e) /\ Books(e)
    <3> DEFINE a == [src.res[id] EXCEPT !.offset = o]
    <3>1. /\ a \in Resource /\ a.size = src.res[id].size /\ a.backing = src.res[id].backing
          /\ a.offset = o /\ a.ext = src.res[id].ext
      BY <1>2, <2>3 DEF IsDevice, Resource
    <3>2. /\ e = [res |-> e.res, host |-> e.host, outs |-> e.outs, shm |-> e.shm, event |-> e.event]
          /\ e.outs = src.outs /\ e.host = src.host /\ e.event = src.event
          /\ e.res = [src.res EXCEPT ![id].offset = o] /\ e.shm = [src.shm EXCEPT ![o] = at]
      <4>1. put = [res |-> src.res, host |-> src.host, outs |-> src.outs,
                   shm |-> [src.shm EXCEPT ![o] = at], event |-> src.event]
        BY <2>3, <2>5, Zenon DEF IsDevice
      <4> QED
        BY <2>5, <4>1, Zenon
    <3>3. e.res = [src.res EXCEPT ![id] = a]
      BY <3>2
    <3> HIDE DEF a
    <3>4. /\ DOMAIN e.res = DOMAIN src.res /\ e.res \in [DOMAIN e.res -> Resource]
          /\ e.res[id] = a /\ \A i \in DOMAIN src.res : i # id => e.res[i] = src.res[i]
          /\ e.shm \in [Offsets -> Mapping]
          /\ e.shm[o] = at /\ \A p \in Offsets : p # o => e.shm[p] = src.shm[p]
      BY <1>2, <2>3, <2>4, <3>1, <3>2, <3>3 DEF IsDevice
    <3>5. IsDevice(e)
      BY <2>3, <3>2, <3>4, Zenon DEF IsDevice
    <3>6. ASSUME NEW i \in DOMAIN src.res, i # id
          PROVE  Placed(e, i)
      <4>1. /\ Placed(src, i) /\ e.res[i] = src.res[i]
            /\ src.res[i].offset \in Offsets \cup {None}
        BY <2>3, <3>4, <3>6 DEF Books, IsDevice, Resource
      <4>2. CASE src.res[i].offset = o
        BY <2>7, <3>4, <3>6, <4>1, <4>2, Zenon DEF Placed
      <4>3. CASE src.res[i].offset # o
        BY <3>4, <4>1, <4>3, Zenon DEF Placed
      <4> QED
        BY <4>2, <4>3
    <3>7. Placed(e, id)
      BY <2>6, <3>1, <3>4 DEF Placed
    <3>8. Books(e)
      BY <1>2, <2>3, <3>1, <3>2, <3>4, <3>6, <3>7 DEF Books
    <3> QED
      BY <3>5, <3>8
  <2> QED
    BY <2>3, <2>8, <2>9
<1> QED
  BY <1>1, <1>2

(* A place where less is mapped or listed than before is none that a record    *)
(* could be wrong about, but for the record of the blob that is taken away.     *)
LEMMA PlaceChange ==
    ASSUME NEW d, IsDevice(d), Books(d), NEW o \in Offsets, NEW m \in Mapping, ~m.listed,
           NEW e, e = [d EXCEPT !.shm = [d.shm EXCEPT ![o] = m]]
    PROVE  IsDevice(e) /\ Books(e) /\ e.res = d.res /\ e.host = d.host
<1>1. /\ e = [res |-> e.res, host |-> e.host, outs |-> e.outs, shm |-> e.shm, event |-> e.event]
      /\ e.res = d.res /\ e.host = d.host /\ e.outs = d.outs /\ e.event = d.event
      /\ e.shm = [d.shm EXCEPT ![o] = m]
  BY Zenon DEF IsDevice
<1>2. /\ e.shm \in [Offsets -> Mapping] /\ e.shm[o] = m
      /\ \A p \in Offsets : p # o => e.shm[p] = d.shm[p]
  BY <1>1 DEF IsDevice
<1>3. IsDevice(e)
  BY <1>1, <1>2, Zenon DEF IsDevice
<1>4. ASSUME NEW i \in DOMAIN d.res PROVE Placed(e, i)
  <2>1. Placed(d, i) /\ d.res[i].offset \in Offsets \cup {None}
    BY <1>4 DEF Books, IsDevice, Resource
  <2> QED
    BY <1>1, <1>2, <2>1, Zenon DEF Placed
<1>5. Books(e)
  BY <1>1, <1>4 DEF Books
<1> QED
  BY <1>1, <1>3, <1>5

(* VmRequester::remove_mapping takes the place off the list or does nothing.    *)
LEMMA RemoveIs ==
    ASSUME NEW d, IsDevice(d), Books(d), NEW o \in Offsets, NEW r \in RemoveMapping(d, o)
    PROVE  IsDevice(r.dev) /\ Books(r.dev) /\ r.dev.res = d.res /\ r.dev.host = d.host
<1> DEFINE m == [d.shm[o] EXCEPT !.listed = FALSE]
           n == [d.shm[o] EXCEPT !.listed = FALSE, !.blob = None]
           unlisted == [d EXCEPT !.shm[o].listed = FALSE]
           gone == [unlisted EXCEPT !.shm[o].blob = None]
<1>1. r \in Refused(d) \/ r \in Done(gone) \/ r \in Refused(gone) \/ r \in Refused(unlisted)
  BY DEF RemoveMapping
<1>2. d.shm[o] \in Mapping /\ o \in DOMAIN d.shm
  BY DEF IsDevice
<1>3. m \in Mapping /\ ~m.listed /\ n \in Mapping /\ ~n.listed
  BY <1>2 DEF Mapping, AllIds
<1>4. unlisted = [d EXCEPT !.shm = [d.shm EXCEPT ![o] = m]]
  BY <1>2 DEF IsDevice
<1>5. gone = [d EXCEPT !.shm = [d.shm EXCEPT ![o] = n]]
  <2>1. unlisted.shm[o] = m /\ n = [m EXCEPT !.blob = None]
    BY <1>2 DEF IsDevice, Mapping
  <2>2. gone = [d EXCEPT !.shm = [d.shm EXCEPT ![o] = [m EXCEPT !.blob = None]]]
    BY <1>2, <2>1 DEF IsDevice
  <2> QED
    BY <2>1, <2>2, Zenon
<1> HIDE DEF m, n, unlisted, gone
<1>6. IsDevice(unlisted) /\ Books(unlisted) /\ unlisted.res = d.res /\ unlisted.host = d.host
  BY <1>3, <1>4, PlaceChange
<1>7. IsDevice(gone) /\ Books(gone) /\ gone.res = d.res /\ gone.host = d.host
  BY <1>3, <1>5, PlaceChange
<1>8. r.dev = d \/ r.dev = gone \/ r.dev = unlisted
  BY <1>1, DoneIs, RefusedIs, Zenon
<1> QED
  BY <1>6, <1>7, <1>8, Zenon

(* The frontend forgets where the blob was, and that the renderer mapped it.    *)
LEMMA ForgottenIs ==
    ASSUME NEW d, IsDevice(d), Books(d), NEW id \in DOMAIN d.res, NEW r \in Forgotten(d, id)
    PROVE  IsDevice(r.dev) /\ Books(r.dev)
<1> DEFINE gone == [d EXCEPT !.res[id].offset = None]
           e == [gone EXCEPT !.res[id].ext = FALSE, !.host[id].mapped = FALSE]
<1>1. r \in Done(gone) \/ r \in Refused(gone) \/ r \in Done(e)
  BY DEF Forgotten
<1>2. id \in DOMAIN d.host
  BY DEF Books
<1>3. gone = [d EXCEPT !.res[id].offset = None]
  OBVIOUS
<1>4. e = [gone EXCEPT !.res[id].ext = FALSE, !.host[id].mapped = FALSE]
  OBVIOUS
<1> HIDE DEF e, gone
<1>5. /\ IsDevice(gone) /\ Books(gone) /\ DOMAIN gone.res = DOMAIN d.res /\ gone.host = d.host
      /\ gone.res[id].offset = None
  <2> DEFINE a == [d.res[id] EXCEPT !.offset = None]
  <2>1. /\ a \in Resource /\ a.size = d.res[id].size /\ a.backing = d.res[id].backing
        /\ a.offset = None /\ a.ext = d.res[id].ext
    BY DEF IsDevice, Resource
  <2>2. /\ gone = [res |-> gone.res, host |-> gone.host, outs |-> gone.outs, shm |-> gone.shm,
                   event |-> gone.event]
        /\ gone.outs = d.outs /\ gone.host = d.host /\ gone.event = d.event /\ gone.shm = d.shm
        /\ gone.res = [d.res EXCEPT ![id].offset = None]
    BY <1>3, Zenon DEF IsDevice
  <2>3. gone.res = [d.res EXCEPT ![id] = a]
    BY <2>2
  <2> HIDE DEF a
  <2>4. /\ DOMAIN gone.res = DOMAIN d.res /\ gone.res \in [DOMAIN gone.res -> Resource]
        /\ gone.res[id] = a /\ \A i \in DOMAIN d.res : i # id => gone.res[i] = d.res[i]
    BY <2>1, <2>3 DEF IsDevice
  <2>5. IsDevice(gone)
    BY <2>2, <2>4 DEF IsDevice
  <2>6. \A i \in DOMAIN d.res : Placed(gone, i)
    <3>1. Placed(gone, id)
      BY <2>1, <2>4, Zenon DEF Placed
    <3>2. ASSUME NEW i \in DOMAIN d.res, i # id PROVE Placed(gone, i)
      BY <2>2, <2>4, <3>2, SamePlaced, Zenon DEF Books
    <3> QED
      BY <3>1, <3>2, Zenon
  <2>7. Books(gone)
    BY <2>1, <2>2, <2>4, <2>6 DEF Books
  <2> QED
    BY <2>1, <2>2, <2>4, <2>5, <2>7
<1>6. IsDevice(e) /\ Books(e)
  <2> DEFINE a == [gone.res[id] EXCEPT !.ext = FALSE]
             h == [gone.host[id] EXCEPT !.mapped = FALSE]
  <2>1. /\ a \in Resource /\ a.size = gone.res[id].size /\ a.backing = gone.res[id].backing
        /\ a.offset = None /\ a.ext = FALSE
    <3>1. gone.res[id] \in Resource
      BY <1>5 DEF IsDevice
    <3> QED
      BY <1>5, <3>1, Zenon DEF Resource
  <2>2. h \in Host /\ h.size = gone.host[id].size /\ h.backing = gone.host[id].backing
    <3>1. gone.host[id] \in Host
      BY <1>2, <1>5 DEF IsDevice
    <3> QED
      BY <3>1, Zenon DEF Host
  <2>3. /\ e = [res |-> e.res, host |-> e.host, outs |-> e.outs, shm |-> e.shm, event |-> e.event]
        /\ e.outs = gone.outs /\ e.shm = gone.shm /\ e.event = gone.event
        /\ e.res = [gone.res EXCEPT ![id].ext = FALSE] /\ e.host = [gone.host EXCEPT ![id].mapped = FALSE]
    BY <1>4, <1>5, Zenon DEF IsDevice
  <2>4. e.res = [gone.res EXCEPT ![id] = a] /\ e.host = [gone.host EXCEPT ![id] = h]
    BY <2>3
  <2> HIDE DEF a, h
  <2>5. /\ DOMAIN e.res = DOMAIN gone.res /\ DOMAIN e.host = DOMAIN gone.host
        /\ e.res \in [DOMAIN e.res -> Resource] /\ e.host \in [DOMAIN e.host -> Host]
        /\ e.res[id] = a /\ \A i \in DOMAIN gone.res : i # id => e.res[i] = gone.res[i]
        /\ e.host[id] = h /\ \A i \in DOMAIN gone.host : i # id => e.host[i] = gone.host[i]
    BY <1>2, <1>5, <2>1, <2>2, <2>4 DEF IsDevice
  <2>6. IsDevice(e)
    BY <1>5, <2>3, <2>5, Zenon DEF IsDevice
  <2>7. \A i \in DOMAIN gone.res : Placed(e, i)
    <3>1. Placed(e, id)
      BY <2>1, <2>5, Zenon DEF Placed
    <3>2. ASSUME NEW i \in DOMAIN gone.res, i # id PROVE Placed(e, i)
      BY <1>5, <2>3, <2>5, <3>2, SamePlaced, Zenon DEF Books
    <3> QED
      BY <3>1, <3>2, Zenon
  <2>8. Books(e)
    BY <1>5, <2>1, <2>2, <2>3, <2>5, <2>7 DEF Books
  <2> QED
    BY <2>6, <2>8
<1>7. r.dev = gone \/ r.dev = e
  BY <1>1, DoneIs, RefusedIs, Zenon
<1> QED
  BY <1>5, <1>6, <1>7

(* resource_unmap_blob undoes the mapping, whichever part of it fails.          *)
LEMMA UnmapIs ==
    ASSUME NEW d, IsDevice(d), Books(d), NEW id, NEW r \in ResourceUnmapBlob(d, id)
    PROVE  IsDevice(r.dev) /\ Books(r.dev)
<1>1. CASE id \notin DOMAIN d.res \/ d.res[id].offset = None
  <2>1. r \in Refused(d)
    BY <1>1, Zenon DEF ResourceUnmapBlob
  <2>2. r.dev = d
    BY <2>1, RefusedIs, Zenon
  <2> QED
    BY <2>2
<1>2. CASE id \in DOMAIN d.res /\ d.res[id].offset # None
  <2> DEFINE o == d.res[id].offset
  <2>1. o \in Offsets
    BY <1>2 DEF IsDevice, Resource
  <2>2. PICK q \in RemoveMapping(d, o) : r \in Forgotten(q.dev, id) \/ r = q
    BY <1>2 DEF ResourceUnmapBlob
  <2> HIDE DEF o
  <2>3. IsDevice(q.dev) /\ Books(q.dev) /\ q.dev.res = d.res
    BY <2>1, <2>2, RemoveIs, Zenon
  <2> QED
    BY <1>2, <2>2, <2>3, ForgottenIs, Zenon
<1> QED
  BY <1>1, <1>2

(* Displays and events are none of the tables.                                  *)
LEMMA OutsChange ==
    ASSUME NEW d, IsDevice(d), Books(d), NEW outs, outs \in [DOMAIN outs -> Output],
           NEW event \in BOOLEAN, NEW e, e = [d EXCEPT !.outs = outs, !.event = event]
    PROVE  IsDevice(e) /\ Books(e)
<1>1. /\ e = [res |-> e.res, host |-> e.host, outs |-> e.outs, shm |-> e.shm, event |-> e.event]
      /\ e.res = d.res /\ e.host = d.host /\ e.shm = d.shm /\ e.outs = outs /\ e.event = event
  BY Zenon DEF IsDevice
<1>2. IsDevice(e)
  BY <1>1 DEF IsDevice
<1>3. SameTables(d, e)
  BY <1>1 DEF SameTables
<1> QED
  BY <1>2, <1>3, SameTablesBooks

(* A new display changes no table.                                              *)
LEMMA AddDisplayIs ==
    ASSUME NEW d, IsDevice(d), Books(d), NEW r \in AddDisplay(d)
    PROVE  IsDevice(r.dev) /\ Books(r.dev)
<1> DEFINE free == Displays \ DOMAIN d.outs
           s == Lowest(free)
           outs == Put(d.outs, s, NewPrimary(NativeSize))
           e == [d EXCEPT !.outs = outs, !.event = TRUE]
<1>1. r \in Refused(d) \/ r \in Done(e)
  BY DEF AddDisplay
<1>2. NewPrimary(NativeSize) \in Output
  BY DisplaysOK DEF NewPrimary, Output, AllIds
<1> HIDE DEF s
<1>3. outs \in [DOMAIN outs -> Output]
  BY <1>2 DEF Put, IsDevice
<1>4. e = [d EXCEPT !.outs = outs, !.event = TRUE]
  OBVIOUS
<1> HIDE DEF outs, e
<1>5. IsDevice(e) /\ Books(e)
  BY <1>3, <1>4, OutsChange, Zenon
<1>6. r.dev = d \/ r.dev = e
  BY <1>1, DoneIs, RefusedIs, Zenon
<1> QED
  BY <1>5, <1>6

(* Nor does the loss of some, also when the list is not done to its end.        *)
LEMMA RemoveDisplaysIs ==
    ASSUME NEW d, IsDevice(d), Books(d), NEW ids, NEW r \in RemoveDisplays(d, ids)
    PROVE  IsDevice(r.dev) /\ Books(r.dev)
<1> DEFINE outs(n) == [s \in DOMAIN d.outs \ {ids[i] : i \in 1 .. n} |-> d.outs[s]]
           E(n, b) == [d EXCEPT !.outs = outs(n), !.event = b]
<1>1. ASSUME NEW n
      PROVE  /\ Without(d, ids, n) = E(n, d.event)
             /\ [Without(d, ids, n) EXCEPT !.event = TRUE] = E(n, TRUE)
  <2>1. d = [res |-> d.res, host |-> d.host, outs |-> d.outs, shm |-> d.shm, event |-> d.event]
    BY DEF IsDevice
  <2>2. Without(d, ids, n) = [d EXCEPT !.outs = outs(n)]
    BY DEF Without
  <2> HIDE DEF outs
  <2> QED
    BY <2>1, <2>2, Zenon
<1>2. ASSUME NEW n PROVE outs(n) \in [DOMAIN outs(n) -> Output]
  BY DEF IsDevice
<1>3. ASSUME NEW n, NEW b \in BOOLEAN PROVE IsDevice(E(n, b)) /\ Books(E(n, b))
  <2>1. E(n, b) = [d EXCEPT !.outs = outs(n), !.event = b]
    OBVIOUS
  <2> HIDE DEF E, outs
  <2> QED
    BY <1>2, <2>1, OutsChange, Zenon
<1> HIDE DEF E, outs
<1>4. \E n : r \in Done(E(n, TRUE)) \/ r \in Refused(E(n, d.event))
  <2>1. CASE Missing(d, ids) = {}
    <3>1. r \in Done([Without(d, ids, Len(ids)) EXCEPT !.event = TRUE])
      BY <2>1, Zenon DEF RemoveDisplays
    <3> QED
      BY <1>1, <3>1, Zenon
  <2>2. CASE Missing(d, ids) # {}
    <3>1. r \in Refused(Without(d, ids, Lowest(Missing(d, ids)) - 1))
      BY <2>2, Zenon DEF RemoveDisplays
    <3> QED
      BY <1>1, <3>1, Zenon
  <2> QED
    BY <2>1, <2>2, Zenon
<1>5. PICK n : r \in Done(E(n, TRUE)) \/ r \in Refused(E(n, d.event))
  BY <1>4, Zenon
<1>6. r.dev = E(n, TRUE) \/ r.dev = E(n, d.event)
  BY <1>5, DoneIs, RefusedIs, Zenon
<1>7. d.event \in BOOLEAN
  BY DEF IsDevice
<1> QED
  BY <1>3, <1>6, <1>7, Zenon

-------------------------------------------------------------------------------
(* The firmware's driver.  At every step of a call: which of the two resources  *)
(* are on the host, which of the two stores are allocated, and which resource   *)
(* has its store behind it.  After CommitStep new is a copy and no longer live. *)

Old == {"old detach", "old free", "old unref"}
Making == {"alloc", "attach", "scanout", "flush", "flip back", "detach", "free", "unref", "commit"}

NewLive == pc \in Making \/ (pc \in Old /\ child = "up")
NewStored == NewLive /\ pc \notin {"alloc", "unref"}
NewBacked == NewLive /\ pc \notin {"alloc", "attach", "free", "unref"}
GopLive == gop.id # None
GopStored == GopLive /\ pc # "old unref"
GopBacked == GopLive /\ pc \notin {"old free", "old unref"}

(* What the tables hold of a resource of the firmware's.                        *)
Holds(d, id, size, store) ==
    /\ id \in DOMAIN d.res /\ id \in DOMAIN d.host
    /\ ~d.res[id].ext /\ d.res[id].backing = store
    /\ d.host[id].size = size /\ d.host[id].backing = store

Calls ==
    /\ gop \in [id : {None, 1, 2}, store : Backing, size : Nat]
    /\ new \in [id : {None, 1, 2}, store : Backing, size : Nat]
    /\ child \in {"none", "init", "up", "os"}
    /\ pc \in Making \cup Old \cup {"idle", "create", "head", "show", "hung"}
    /\ child = "os" => pc = "idle"
    /\ child # "os" => before = OS!NotResumed
    /\ child = "none" => pc \in Old \cup {"idle", "head", "hung"}
    /\ child = "init" => pc \notin {"idle", "flush", "flip back", "show"}
    /\ child = "up" => pc # "head"

(* Which resource is there, by the call that runs.                              *)
Lives ==
    /\ pc = "commit" => ~GopLive
    /\ pc \in Old \cup {"head"} => GopLive
    /\ pc = "idle" /\ child = "none" => ~GopLive
    /\ child = "init" /\ (pc \in Making \/ pc = "create") => ~GopLive
    /\ child = "up" /\ pc # "commit" => GopLive
    /\ NewLive \/ pc = "create" => new.id # None /\ new.id # gop.id
    /\ NewStored => new.store \in Stores
    /\ GopStored => gop.store \in Stores
    /\ GopStored /\ NewStored => gop.store # new.store

Tables ==
    /\ DOMAIN dev.res = {id \in {gop.id} : GopLive} \cup {id \in {new.id} : NewLive}
    /\ DOMAIN dev.host = DOMAIN dev.res
    /\ GopLive => Holds(dev, gop.id, gop.size, IF GopBacked THEN gop.store ELSE NoStore)
    /\ NewLive => Holds(dev, new.id, new.size, IF NewBacked THEN new.store ELSE NoStore)
    /\ pages = {st \in {gop.store} : GopStored} \cup {st \in {new.store} : NewStored}

(* What head 0 shows, on a surface of the same size unless the display refused. *)
Flipped == pc \in Old \cup {"flush", "flip back", "commit"}
Current == IF Flipped THEN new ELSE gop
Lit(size) == (Screen.surface => Screen.size = size) /\ (Screen.surface \/ dark)
Shows ==
    child = "up" =>
        /\ 0 \in DOMAIN dev.outs
        /\ Screen.res = Current.id /\ Lit(Current.size)
Committing == pc = "commit" => 0 \in DOMAIN dev.outs /\ Screen.res = new.id /\ Lit(new.size)

Firmware == child # "os" /\ pc # "hung" => Lives /\ Tables /\ Shows /\ Committing

IInv ==
    /\ IsDevice(dev) /\ Books(dev)
    /\ Calls /\ Firmware /\ BackingSafe /\ RestoreFaithful

(* Off the hung state the tables say that the host reads the driver's memory.   *)
LEMMA SafeIs ==
    ASSUME Calls, Lives, Tables
    PROVE  BackingSafe
<1>1. ASSUME NEW id \in DOMAIN dev.host, dev.host[id].backing # NoStore
      PROVE  dev.host[id].backing \in pages /\ dev.res[id].backing = dev.host[id].backing
  <2>1. CASE GopLive /\ id = gop.id
    BY <1>1, <2>1 DEF Tables, Holds, GopStored, GopBacked
  <2>2. CASE NewLive /\ id = new.id
    BY <1>1, <2>2 DEF Tables, Holds, NewStored, NewBacked
  <2> QED
    BY <1>1, <2>1, <2>2, Zenon DEF Tables
<1>2. ASSUME pc = "idle", child = "none"
      PROVE  DOMAIN dev.host = {} /\ pages = {}
  BY <1>2 DEF Lives, Tables, NewLive, NewStored, GopStored, Making, Old
<1> QED
  BY <1>1, <1>2, Zenon DEF BackingSafe

(* A step of the firmware's driver that does not hang, and one that does.       *)
LEMMA StepInv ==
    ASSUME IInv, child # "os", child' # "os", UNCHANGED before, IsDevice(dev'), Books(dev'),
           Calls', Lives', Tables', Shows', Committing'
    PROVE  IInv'
<1>1. BackingSafe'
  BY SafeIs, PTL
<1>2. RestoreFaithful'
  BY DEF IInv, Calls, RestoreFaithful, OS!RestoreFaithful
<1> QED
  BY <1>1, <1>2 DEF IInv, Firmware

(* A driver that hangs leaves its memory to the host.                           *)
LEMMA HungInv ==
    ASSUME IInv, child # "os", UNCHANGED <<before, pages, child>>, IsDevice(dev'), Books(dev'),
           dev'.res = dev.res, dev'.host = dev.host, pc' = "hung", Calls'
    PROVE  IInv'
<1>1. BackingSafe'
  BY DEF IInv, BackingSafe
<1>2. RestoreFaithful'
  BY DEF IInv, Calls, RestoreFaithful, OS!RestoreFaithful
<1>3. Firmware'
  BY DEF Firmware
<1> QED
  BY <1>1, <1>2, <1>3 DEF IInv

(* A command of the firmware's is answered, or fails before it is sent.         *)
LEMMA Sent ==
    ASSUME NEW outcomes, NEW good, NEW bad, Send(outcomes, good, bad)
    PROVE  \E r : /\ (r \in outcomes \/ (r.dev = dev /\ r.ok = FALSE))
                  /\ dev' = r.dev /\ pc' = IF r.ok THEN good ELSE bad
<1>1. PICK r \in outcomes \union Refused(dev) : dev' = r.dev /\ pc' = IF r.ok THEN good ELSE bad
  BY DEF Send
<1>2. r \in outcomes \/ (r.dev = dev /\ r.ok = FALSE)
  BY RefusedIs, Zenon
<1> QED
  BY <1>1, <1>2

(* A step that leaves the screen alone.                                         *)
LEMMA ShowsKept ==
    ASSUME Shows, dev'.outs = dev.outs, dark' = dark, child' = "up" => child = "up" /\ Current' = Current
    PROVE  Shows'
<1>1. CASE child' # "up"
  BY <1>1, Zenon DEF Shows
<1>2. CASE child' = "up"
  <2>1. child = "up" /\ Current' = Current /\ Screen' = Screen
    BY <1>2, Zenon DEF Screen
  <2>2. 0 \in DOMAIN dev'.outs /\ Screen'.res = Current'.id
    BY <2>1, Zenon DEF Shows
  <2>3. Lit(Current.size)'
    <3>1. Lit(Current.size)
      BY <2>1, Zenon DEF Shows
    <3> QED
      BY <2>1, <3>1, Zenon DEF Lit
  <2> QED
    BY <2>2, <2>3, Zenon DEF Shows
<1> QED
  BY <1>1, <1>2

(* SetMode and InitVgpuGop start with an id that is not in use.                 *)
LEMMA EnterInv ==
    ASSUME IInv, pc = "idle", (child = "none" /\ child' = "init") \/ (child = "up" /\ child' = "up"),
           NEW size \in Nat, Enter(size), UNCHANGED system
    PROVE  IInv'
<1>1. /\ Lives /\ Tables /\ Shows
  BY DEF IInv, Firmware
<1>2. /\ pc' = "create" /\ new' = [id |-> NewResourceId, store |-> NoStore, size |-> size]
      /\ UNCHANGED <<dev, pages, gop, before, dark>>
  BY DEF Enter, system
<1>3. NewResourceId \in {1, 2} /\ NewResourceId # gop.id
  BY DEF IInv, Calls, NewResourceId, None
<1>4. Calls'
  BY <1>2, <1>3 DEF IInv, Calls, Old, Making, Backing
<1>5. /\ ~NewLive /\ ~NewStored /\ ~NewBacked /\ ~NewLive' /\ ~NewStored' /\ ~NewBacked'
      /\ GopLive' = GopLive /\ GopStored' = GopStored /\ GopBacked' = GopBacked
  BY <1>2 DEF NewLive, NewStored, NewBacked, GopLive, GopStored, GopBacked, Making, Old
<1>6. Lives'
  BY <1>1, <1>2, <1>3, <1>5 DEF Lives, Old, Making, None
<1>7. Tables'
  BY <1>1, <1>2, <1>5 DEF Tables, Holds
<1>8. Shows' /\ Committing'
  <2>1. child' = "up" => child = "up" /\ Current' = Current
    BY <1>1, <1>2 DEF Current, Flipped, Old
  <2> QED
    BY <1>1, <1>2, <2>1, ShowsKept DEF Committing
<1> QED
  BY <1>2, <1>4, <1>6, <1>7, <1>8, StepInv DEF IInv

(* Commands of the firmware's driver, by what they do to a resource's entries.  *)
LEMMA SameHolds ==
    ASSUME NEW d, NEW e, SameTables(d, e), NEW id, NEW size, NEW store, Holds(d, id, size, store)
    PROVE  Holds(e, id, size, store)
  BY Zenon DEF SameTables, Holds

(* The device's answer to the driver's ResourceCreate2d.                        *)
LEMMA CreateSent ==
    ASSUME IsDevice(dev), Books(dev), NEW id, id # None, NEW size \in Nat, NEW good, NEW bad,
           Send(Create(dev, id, size, "2d"), good, bad)
    PROVE  /\ IsDevice(dev') /\ Books(dev')
           /\ \/ pc' = bad /\ dev' = dev
              \/ /\ pc' = good /\ dev'.outs = dev.outs
                 /\ DOMAIN dev'.res = DOMAIN dev.res \cup {id}
                 /\ DOMAIN dev'.host = DOMAIN dev.host \cup {id}
                 /\ Holds(dev', id, size, NoStore)
                 /\ \A i, sz, st : i # id /\ Holds(dev, i, sz, st) => Holds(dev', i, sz, st)
<1>1. PICK r : /\ r \in Create(dev, id, size, "2d") \/ (r.dev = dev /\ r.ok = FALSE)
               /\ dev' = r.dev /\ pc' = IF r.ok THEN good ELSE bad
  BY Sent, Zenon
<1>2. CASE r.dev = dev /\ r.ok = FALSE
  BY <1>1, <1>2, Zenon
<1>3. CASE r \in Create(dev, id, size, "2d")
  <2> DEFINE kind == "2d"
  <2>0. kind \in HostKinds /\ r \in Create(dev, id, size, kind)
    BY <1>3 DEF HostKinds
  <2> HIDE DEF kind
  <2>1. /\ r.ok \in BOOLEAN /\ (~r.ok => r.dev = dev) /\ IsDevice(r.dev) /\ Books(r.dev)
        /\ r.ok => /\ r.dev.res = Put(dev.res, id, NewResource(size))
                   /\ r.dev.host = Put(dev.host, id, NewHost(size, kind))
                   /\ r.dev.outs = dev.outs
    <3>1. Created(dev, id, size, kind, r)
      BY <2>0, CreateIs, Zenon
    <3> QED
      BY <3>1, Zenon DEF Created
  <2>2. CASE ~r.ok
    BY <1>1, <2>1, <2>2, Zenon
  <2>3. CASE r.ok
    <3>1. /\ dev'.res = Put(dev.res, id, NewResource(size)) /\ dev'.outs = dev.outs
          /\ dev'.host = Put(dev.host, id, NewHost(size, kind)) /\ IsDevice(dev') /\ Books(dev')
      BY <1>1, <2>1, <2>3, Zenon
    <3>2. /\ DOMAIN dev'.res = DOMAIN dev.res \cup {id} /\ DOMAIN dev'.host = DOMAIN dev.host \cup {id}
          /\ dev'.res[id] = NewResource(size) /\ dev'.host[id] = NewHost(size, kind)
          /\ \A i \in DOMAIN dev.res : i # id => dev'.res[i] = dev.res[i]
          /\ \A i \in DOMAIN dev.host : i # id => dev'.host[i] = dev.host[i]
      BY <3>1, Zenon DEF Put
    <3>3. Holds(dev', id, size, NoStore)
      BY <3>2 DEF Holds, NewResource, NewHost
    <3>4. ASSUME NEW i, NEW sz, NEW st, i # id, Holds(dev, i, sz, st) PROVE Holds(dev', i, sz, st)
      BY <3>2, <3>4 DEF Holds
    <3> QED
      BY <1>1, <2>3, <3>1, <3>2, <3>3, <3>4
  <2> QED
    BY <2>1, <2>2, <2>3
<1> QED
  BY <1>1, <1>2, <1>3

(* Its answer to ResourceAttachBacking and ResourceDetachBacking.               *)
LEMMA BackingSent ==
    ASSUME IsDevice(dev), Books(dev), NEW id, NEW store \in Backing, NEW good, NEW bad,
           Send(SetBacking(dev, id, store), good, bad)
    PROVE  /\ IsDevice(dev') /\ Books(dev')
           /\ \/ pc' = bad /\ dev' = dev
              \/ /\ pc' = good /\ dev'.outs = dev.outs
                 /\ DOMAIN dev'.res = DOMAIN dev.res /\ DOMAIN dev'.host = DOMAIN dev.host
                 /\ \A size, st : Holds(dev, id, size, st) => Holds(dev', id, size, store)
                 /\ \A i, size, st : i # id /\ Holds(dev, i, size, st) => Holds(dev', i, size, st)
<1>1. PICK r : /\ r \in SetBacking(dev, id, store) \/ (r.dev = dev /\ r.ok = FALSE)
               /\ dev' = r.dev /\ pc' = IF r.ok THEN good ELSE bad
  BY Sent, Zenon
<1>2. CASE r.dev = dev /\ r.ok = FALSE
  BY <1>1, <1>2
<1>3. CASE r \in SetBacking(dev, id, store)
  <2>0. /\ r.ok \in BOOLEAN /\ (~r.ok => r.dev = dev) /\ IsDevice(r.dev) /\ Books(r.dev)
        /\ r.ok => /\ id \in DOMAIN dev.res
                   /\ r.dev.res = [dev.res EXCEPT ![id].backing = store]
                   /\ r.dev.host = [dev.host EXCEPT ![id].backing = store]
                   /\ r.dev.outs = dev.outs
    BY <1>3, SetBackingIs, Zenon
  <2>1. /\ r.ok \in BOOLEAN /\ (~r.ok => r.dev = dev) /\ IsDevice(dev') /\ Books(dev')
        /\ r.ok => /\ id \in DOMAIN dev.res
                   /\ dev'.res = [dev.res EXCEPT ![id].backing = store]
                   /\ dev'.host = [dev.host EXCEPT ![id].backing = store]
                   /\ dev'.outs = dev.outs
    BY <1>1, <2>0, Zenon
  <2>2. CASE ~r.ok
    BY <1>1, <2>1, <2>2
  <2>3. CASE r.ok
    <3>1. id \in DOMAIN dev.res /\ id \in DOMAIN dev.host
      BY <2>1, <2>3 DEF Books
    <3>2. /\ DOMAIN dev'.res = DOMAIN dev.res /\ DOMAIN dev'.host = DOMAIN dev.host
          /\ dev'.res[id] = [dev.res[id] EXCEPT !.backing = store]
          /\ dev'.host[id] = [dev.host[id] EXCEPT !.backing = store]
          /\ \A i \in DOMAIN dev.res : i # id => dev'.res[i] = dev.res[i]
          /\ \A i \in DOMAIN dev.host : i # id => dev'.host[i] = dev.host[i]
      BY <2>1, <2>3, <3>1 DEF IsDevice
    <3>3. dev.res[id] \in Resource /\ dev.host[id] \in Host
      BY <3>1 DEF IsDevice
    <3>4. /\ dev'.res[id].ext = dev.res[id].ext /\ dev'.res[id].backing = store
          /\ dev'.host[id].size = dev.host[id].size /\ dev'.host[id].backing = store
      BY <3>2, <3>3 DEF Resource, Host
    <3>5. ASSUME NEW size, NEW st, Holds(dev, id, size, st) PROVE Holds(dev', id, size, store)
      BY <3>2, <3>4, <3>5 DEF Holds
    <3>6. ASSUME NEW i, NEW size, NEW st, i # id, Holds(dev, i, size, st) PROVE Holds(dev', i, size, st)
      BY <3>2, <3>6, Zenon DEF Holds
    <3> QED
      BY <1>1, <2>1, <2>3, <3>2, <3>5, <3>6
  <2> QED
    BY <2>1, <2>2, <2>3
<1> QED
  BY <1>1, <1>2, <1>3

(* Its answer to ResourceUnref: nothing of the firmware's is mapped.            *)
LEMMA UnrefSent ==
    ASSUME IsDevice(dev), Books(dev), NEW id, id \in DOMAIN dev.res, dev.res[id].ext = FALSE,
           NEW good, NEW bad, Send(UnrefResource(dev, id), good, bad)
    PROVE  /\ IsDevice(dev') /\ Books(dev')
           /\ \/ pc' = bad /\ dev' = dev
              \/ /\ pc' = good /\ dev'.outs = dev.outs
                 /\ DOMAIN dev'.res = DOMAIN dev.res \ {id}
                 /\ DOMAIN dev'.host = DOMAIN dev.host \ {id}
                 /\ \A i, size, st : i # id /\ Holds(dev, i, size, st) => Holds(dev', i, size, st)
<1>1. PICK r : /\ r \in UnrefResource(dev, id) \/ (r.dev = dev /\ r.ok = FALSE)
               /\ dev' = r.dev /\ pc' = IF r.ok THEN good ELSE bad
  <2>1. PICK r \in UnrefResource(dev, id) \union Refused(dev) :
            dev' = r.dev /\ pc' = IF r.ok THEN good ELSE bad
    BY DEF Send
  <2>2. r \in UnrefResource(dev, id) \/ (r.dev = dev /\ r.ok = FALSE)
    BY RefusedIs, Zenon
  <2> QED
    BY <2>1, <2>2
<1>2. CASE r.dev = dev /\ r.ok = FALSE
  BY <1>1, <1>2, Zenon
<1>3. CASE r \in UnrefResource(dev, id)
  <2>1. /\ r.ok \in BOOLEAN /\ (~r.ok => r.dev = dev) /\ IsDevice(dev') /\ Books(dev')
        /\ r.ok => /\ dev'.res = Drop(dev.res, id) /\ dev'.host = Drop(dev.host, id)
                   /\ dev'.outs = dev.outs
    BY <1>1, <1>3, UnrefIs, Zenon
  <2>2. CASE ~r.ok
    BY <1>1, <2>1, <2>2, Zenon
  <2>3. CASE r.ok
    <3>1. /\ DOMAIN dev'.res = DOMAIN dev.res \ {id} /\ DOMAIN dev'.host = DOMAIN dev.host \ {id}
          /\ \A i \in DOMAIN dev.res : i # id => dev'.res[i] = dev.res[i]
          /\ \A i \in DOMAIN dev.host : i # id => dev'.host[i] = dev.host[i]
      BY <2>1, <2>3 DEF Drop
    <3>2. ASSUME NEW i, NEW size, NEW st, i # id, Holds(dev, i, size, st) PROVE Holds(dev', i, size, st)
      BY <3>1, <3>2, Zenon DEF Holds
    <3> QED
      BY <1>1, <2>1, <2>3, <3>1, <3>2, Zenon
  <2> QED
    BY <2>1, <2>2, <2>3, Zenon
<1> QED
  BY <1>1, <1>2, <1>3

(* Its answer to SetScanout.                                                    *)
LEMMA ScanoutSent ==
    ASSUME IsDevice(dev), Books(dev), NEW id \in AllIds, NEW size, id # None => size \in Nat,
           NEW good, NEW bad, Send(SetScanout(dev, 0, id, size), good, bad)
    PROVE  /\ IsDevice(dev') /\ Books(dev') /\ dev'.res = dev.res /\ dev'.host = dev.host
           /\ DOMAIN dev'.outs = DOMAIN dev.outs
           /\ \/ /\ pc' = bad /\ \A t \in DOMAIN dev.outs : dev'.outs[t].res = dev.outs[t].res
                 /\ dev' = dev \/ ~dev'.outs[0].surface
              \/ /\ pc' = good /\ 0 \in DOMAIN dev.outs /\ dev'.outs[0].res = id
                 /\ id # None => dev'.outs[0].surface /\ dev'.outs[0].size = size
<1>1. PICK r : /\ r \in SetScanout(dev, 0, id, size) \/ (r.dev = dev /\ r.ok = FALSE)
               /\ dev' = r.dev /\ pc' = IF r.ok THEN good ELSE bad
  BY Sent, Zenon
<1>2. CASE r.dev = dev /\ r.ok = FALSE
  BY <1>1, <1>2, Zenon
<1>3. CASE r \in SetScanout(dev, 0, id, size)
  <2>1. /\ r.ok \in BOOLEAN
        /\ r.dev.res = dev.res /\ r.dev.host = dev.host /\ DOMAIN r.dev.outs = DOMAIN dev.outs
        /\ r.ok => 0 \in DOMAIN dev.outs /\ r.dev.outs[0].res = id
        /\ r.ok /\ id # None => r.dev.outs[0].surface /\ r.dev.outs[0].size = size
        /\ ~r.ok => r.dev = dev \/ ~r.dev.outs[0].surface
        /\ ~r.ok => \A t \in DOMAIN dev.outs : r.dev.outs[t].res = dev.outs[t].res
        /\ IsDevice(r.dev) /\ Books(r.dev)
    <3>1. Scanned(dev, 0, id, size, r)
      BY <1>3, SetScanoutIs, Zenon
    <3> QED
      BY <3>1, Zenon DEF Scanned
  <2> QED
    BY <1>1, <2>1
<1> QED
  BY <1>1, <1>2, <1>3

(* Its answer to ResourceFlush.                                                 *)
LEMMA FlushSent ==
    ASSUME IsDevice(dev), Books(dev), NEW id, NEW good, NEW bad, Send(FlushResource(dev, id), good, bad)
    PROVE  /\ IsDevice(dev') /\ Books(dev') /\ dev'.outs = dev.outs /\ SameTables(dev, dev')
           /\ pc' = good \/ pc' = bad
<1>1. PICK r : /\ r \in FlushResource(dev, id) \/ (r.dev = dev /\ r.ok = FALSE)
               /\ dev' = r.dev /\ pc' = IF r.ok THEN good ELSE bad
  BY Sent, Zenon
<1>2. CASE r.dev = dev /\ r.ok = FALSE
  BY <1>1, <1>2 DEF SameTables
<1>3. CASE r \in FlushResource(dev, id)
  BY <1>1, <1>3, FlushIs
<1> QED
  BY <1>1, <1>2, <1>3, Zenon

(* Its answer to TransferToHost2d.                                              *)
LEMMA TransferSent ==
    ASSUME IsDevice(dev), Books(dev), NEW id, NEW good, NEW bad,
           Send(TransferWrite(dev, id, TRUE), good, bad)
    PROVE  /\ IsDevice(dev') /\ Books(dev') /\ dev'.outs = dev.outs /\ SameTables(dev, dev')
           /\ pc' = good \/ pc' = bad
<1>1. PICK r : /\ r \in TransferWrite(dev, id, TRUE) \/ (r.dev = dev /\ r.ok = FALSE)
               /\ dev' = r.dev /\ pc' = IF r.ok THEN good ELSE bad
  BY Sent, Zenon
<1>2. CASE r.dev = dev /\ r.ok = FALSE
  BY <1>1, <1>2 DEF SameTables
<1>3. CASE r \in TransferWrite(dev, id, TRUE)
  BY <1>1, <1>3, TransferIs, Zenon
<1> QED
  BY <1>1, <1>2, <1>3, Zenon

(* CreateStep: the new resource joins the old one.                              *)
LEMMA CreateStepInv ==
    ASSUME IInv, CreateStep, UNCHANGED system
    PROVE  IInv'
<1>1. /\ pc = "create" /\ child # "os" /\ Lives /\ Tables /\ Shows /\ IsDevice(dev) /\ Books(dev)
  BY DEF CreateStep, IInv, Firmware, Calls
<1>2. /\ new.id \in {1, 2} /\ new.id # None /\ new.id # gop.id /\ new.size \in Nat
  BY <1>1 DEF IInv, Calls, Lives
<1>3. /\ IsDevice(dev') /\ Books(dev')
      /\ \/ pc' = "idle" /\ dev' = dev
         \/ /\ pc' = "alloc" /\ dev'.outs = dev.outs
            /\ DOMAIN dev'.res = DOMAIN dev.res \cup {new.id}
            /\ DOMAIN dev'.host = DOMAIN dev.host \cup {new.id}
            /\ Holds(dev', new.id, new.size, NoStore)
            /\ \A i, sz, st : i # new.id /\ Holds(dev, i, sz, st) => Holds(dev', i, sz, st)
  <2>1. Send(Create(dev, new.id, new.size, "2d"), "alloc", "idle")
    BY DEF CreateStep
  <2> QED
    BY <1>1, <1>2, <2>1, CreateSent, Zenon
<1>5. /\ child' = (IF pc' = "idle" /\ child = "init" THEN "none" ELSE child)
      /\ UNCHANGED <<pages, gop, new, before, dark>>
  BY DEF CreateStep, system
<1>6. ~NewLive /\ ~NewStored /\ ~NewBacked
  BY <1>1 DEF NewLive, NewStored, NewBacked, Making, Old
<1>7. CASE pc' = "idle" /\ dev' = dev
  <2>2. Calls'
    BY <1>1, <1>5, <1>7 DEF IInv, Calls, Old
  <2>3. /\ ~NewLive' /\ ~NewStored' /\ ~NewBacked'
        /\ GopLive' = GopLive /\ GopStored' = GopStored /\ GopBacked' = GopBacked
    BY <1>1, <1>5, <1>7, Zenon DEF NewLive, NewStored, NewBacked, GopLive, GopStored, GopBacked, Making, Old
  <2>4. Lives'
    BY <1>1, <1>5, <1>7, <2>3, Zenon DEF IInv, Calls, Lives, Old, Making
  <2>5. Tables'
    BY <1>1, <1>5, <1>6, <1>7, <2>3, Zenon DEF Tables, Holds
  <2>6. Shows' /\ Committing'
    <3>1. child' = "up" => child = "up" /\ Current' = Current
      BY <1>1, <1>5, <1>7 DEF Current, Flipped, Old
    <3> QED
      BY <1>1, <1>5, <1>7, <3>1, ShowsKept DEF Committing
  <2>7. child' # "os"
    BY <1>1, <1>5, Zenon
  <2> QED
    BY <1>1, <1>3, <1>5, <2>2, <2>4, <2>5, <2>6, <2>7, StepInv, Zenon
<1>8. CASE /\ pc' = "alloc" /\ dev'.outs = dev.outs
           /\ DOMAIN dev'.res = DOMAIN dev.res \cup {new.id}
           /\ DOMAIN dev'.host = DOMAIN dev.host \cup {new.id}
           /\ Holds(dev', new.id, new.size, NoStore)
           /\ \A i, sz, st : i # new.id /\ Holds(dev, i, sz, st) => Holds(dev', i, sz, st)
  <2>1. child' = child
    BY <1>5, <1>8, Zenon
  <2>2. Calls'
    BY <1>1, <1>5, <1>8, <2>1, Zenon DEF IInv, Calls, Old, Making
  <2>3. /\ NewLive' /\ ~NewStored' /\ ~NewBacked'
        /\ GopLive' = GopLive /\ GopStored' = GopStored /\ GopBacked' = GopBacked
    BY <1>1, <1>5, <1>8, Zenon DEF NewLive, NewStored, NewBacked, GopLive, GopStored, GopBacked, Making, Old
  <2>4. Lives'
    BY <1>1, <1>2, <1>5, <1>8, <2>1, <2>3, Zenon DEF Lives, Old, Making
  <2>5. GopLive => Holds(dev', gop.id, gop.size, IF GopBacked THEN gop.store ELSE NoStore)
    BY <1>1, <1>2, <1>8, Zenon DEF Tables
  <2>6. Tables'
    BY <1>1, <1>5, <1>6, <1>8, <2>3, <2>5, Zenon DEF Tables
  <2>7. Shows' /\ Committing'
    <3>1. child' = "up" => child = "up" /\ Current' = Current
      BY <1>1, <1>5, <1>8, <2>1 DEF Current, Flipped, Old
    <3> QED
      BY <1>1, <1>5, <1>8, <2>1, <3>1, ShowsKept DEF Committing
  <2> QED
    BY <1>1, <1>3, <1>5, <2>1, <2>2, <2>4, <2>6, <2>7, StepInv, Zenon
<1> QED
  BY <1>3, <1>7, <1>8

(* AllocStep: its store is not the old one's.                                   *)
LEMMA AllocStepInv ==
    ASSUME IInv, AllocStep, UNCHANGED system
    PROVE  IInv'
<1>1. /\ pc = "alloc" /\ child # "os" /\ Lives /\ Tables /\ Shows /\ IsDevice(dev) /\ Books(dev)
      /\ new.id \in {1, 2} /\ new.id # gop.id
  BY DEF AllocStep, IInv, Firmware, Calls, Lives, NewLive, Making
<1>2. UNCHANGED <<dev, gop, child, before, dark>>
  BY DEF AllocStep, system
<1>3. NewLive /\ ~NewStored /\ ~NewBacked
  BY <1>1 DEF NewLive, NewStored, NewBacked, Making
<1>4. CASE pc' = "unref" /\ UNCHANGED <<pages, new>>
  <2>1. Calls'
    BY <1>1, <1>2, <1>4 DEF IInv, Calls, Old, Making
  <2>2. /\ NewLive' /\ ~NewStored' /\ ~NewBacked'
        /\ GopLive' = GopLive /\ GopStored' = GopStored /\ GopBacked' = GopBacked
    BY <1>1, <1>2, <1>4 DEF NewLive, NewStored, NewBacked, GopLive, GopStored, GopBacked, Making, Old
  <2>3. Lives'
    BY <1>1, <1>2, <1>4, <2>2 DEF Lives, Old, Making, None
  <2>4. Tables'
    BY <1>1, <1>2, <1>3, <1>4, <2>2 DEF Tables, Holds
  <2>5. Shows' /\ Committing'
    <3>1. child' = "up" => child = "up" /\ Current' = Current
      BY <1>1, <1>2, <1>4 DEF Current, Flipped, Old
    <3> QED
      BY <1>1, <1>2, <1>4, <3>1, ShowsKept DEF Committing
  <2> QED
    BY <1>1, <1>2, <2>1, <2>3, <2>4, <2>5, StepInv
<1>5. CASE \E st \in Stores \ pages :
            pages' = pages \union {st} /\ new' = [new EXCEPT !.store = st] /\ pc' = "attach"
  <2>1. PICK st \in Stores \ pages :
            pages' = pages \union {st} /\ new' = [new EXCEPT !.store = st] /\ pc' = "attach"
    BY <1>5
  <2>2. /\ new'.id = new.id /\ new'.size = new.size /\ new'.store = st
        /\ new' \in [id : {None, 1, 2}, store : Backing, size : Nat]
    BY <2>1 DEF IInv, Calls, Backing
  <2>3. Calls'
    BY <1>1, <1>2, <2>1, <2>2 DEF IInv, Calls, Old, Making
  <2>4. /\ NewLive' /\ NewStored' /\ ~NewBacked'
        /\ GopLive' = GopLive /\ GopStored' = GopStored /\ GopBacked' = GopBacked
    BY <1>1, <1>2, <2>1 DEF NewLive, NewStored, NewBacked, GopLive, GopStored, GopBacked, Making, Old
  <2>5. GopStored => gop.store # st
    BY <1>1, <2>1 DEF Tables
  <2>6. Lives'
    BY <1>1, <1>2, <2>1, <2>2, <2>4, <2>5 DEF Lives, Old, Making, None
  <2>7. Tables'
    BY <1>1, <1>2, <1>3, <2>1, <2>2, <2>4, Zenon DEF Tables, Holds
  <2>8. Shows' /\ Committing'
    <3>1. child' = "up" => child = "up" /\ Current' = Current
      BY <1>1, <1>2, <2>1 DEF Current, Flipped, Old
    <3> QED
      BY <1>1, <1>2, <2>1, <3>1, ShowsKept DEF Committing
  <2> QED
    BY <1>1, <1>2, <2>3, <2>6, <2>7, <2>8, StepInv
<1> QED
  BY <1>4, <1>5 DEF AllocStep

(* AttachStep: the host gets a store that is allocated.                         *)
LEMMA AttachStepInv ==
    ASSUME IInv, AttachStep, UNCHANGED system
    PROVE  IInv'
<1>1. /\ pc = "attach" /\ child # "os" /\ Lives /\ Tables /\ Shows /\ IsDevice(dev) /\ Books(dev)
      /\ new.id # None /\ new.id # gop.id /\ new.store \in Backing
  BY DEF AttachStep, IInv, Firmware, Calls, Lives, NewLive, Making
<1>2. UNCHANGED <<pages, gop, child, new, before, dark>>
  BY DEF AttachStep, local, system
<1>3. NewLive /\ NewStored /\ ~NewBacked
  BY <1>1 DEF NewLive, NewStored, NewBacked, Making
<1>4. /\ IsDevice(dev') /\ Books(dev')
      /\ \/ pc' = "free" /\ dev' = dev
         \/ /\ pc' = "scanout" /\ dev'.outs = dev.outs
            /\ DOMAIN dev'.res = DOMAIN dev.res /\ DOMAIN dev'.host = DOMAIN dev.host
            /\ \A size, st : Holds(dev, new.id, size, st) => Holds(dev', new.id, size, new.store)
            /\ \A i, size, st : i # new.id /\ Holds(dev, i, size, st) => Holds(dev', i, size, st)
  <2>1. Send(SetBacking(dev, new.id, new.store), "scanout", "free")
    BY Zenon DEF AttachStep, AttachBacking
  <2> QED
    BY <1>1, <2>1, BackingSent, Zenon
<1>5. /\ Calls' /\ NewLive' /\ NewStored'
      /\ GopLive' = GopLive /\ GopStored' = GopStored /\ GopBacked' = GopBacked
  <2>1. Calls'
    BY <1>1, <1>2, <1>4 DEF IInv, Calls, Old, Making
  <2> QED
    BY <1>1, <1>2, <1>4, <2>1 DEF NewLive, NewStored, GopLive, GopStored, GopBacked, Making, Old
<1>6. Lives'
  BY <1>1, <1>2, <1>3, <1>4, <1>5 DEF Lives, Old, Making
<1>7. Tables'
  <2>1. CASE pc' = "free" /\ dev' = dev
    <3>1. ~NewBacked'
      BY <2>1, Zenon DEF NewBacked
    <3> QED
      BY <1>1, <1>2, <1>3, <1>5, <2>1, <3>1 DEF Tables
  <2>2. CASE /\ pc' = "scanout"
             /\ DOMAIN dev'.res = DOMAIN dev.res /\ DOMAIN dev'.host = DOMAIN dev.host
             /\ \A size, st : Holds(dev, new.id, size, st) => Holds(dev', new.id, size, new.store)
             /\ \A i, size, st : i # new.id /\ Holds(dev, i, size, st) => Holds(dev', i, size, st)
    <3>1. NewBacked'
      BY <1>5, <2>2, Zenon DEF NewBacked
    <3>2. Holds(dev', new.id, new.size, new.store)
      BY <1>1, <1>3, <2>2, Zenon DEF Tables
    <3>3. GopLive => Holds(dev', gop.id, gop.size, IF GopBacked THEN gop.store ELSE NoStore)
      BY <1>1, <2>2, Zenon DEF Tables
    <3> QED
      BY <1>1, <1>2, <1>3, <1>5, <2>2, <3>1, <3>2, <3>3, Zenon DEF Tables
  <2> QED
    BY <1>4, <2>1, <2>2, Zenon
<1>8. Shows' /\ Committing'
  <2>1. child' = "up" => child = "up" /\ Current' = Current
    BY <1>1, <1>2, <1>4 DEF Current, Flipped, Old
  <2> QED
    BY <1>1, <1>2, <1>4, <2>1, ShowsKept DEF Committing
<1> QED
  BY <1>1, <1>2, <1>4, <1>5, <1>6, <1>7, <1>8, StepInv, Zenon

(* Steps that only touch the screen, or the renderer's info_2d, keep the tables.*)
SameHeld(d, e) ==
    /\ DOMAIN e.res = DOMAIN d.res /\ DOMAIN e.host = DOMAIN d.host
    /\ \A id, size, st : Holds(d, id, size, st) => Holds(e, id, size, st)

(* Two ways for a command to do so.                                             *)
LEMMA SameTablesHeld ==
    ASSUME NEW d, NEW e, SameTables(d, e) \/ (e.res = d.res /\ e.host = d.host)
    PROVE  SameHeld(d, e)
  BY SameHolds, Zenon DEF SameHeld, SameTables, Holds

(* Then the driver's picture of the tables stays true.                          *)
LEMMA SameHeldInv ==
    ASSUME Tables, SameHeld(dev, dev'), UNCHANGED <<pages, gop, new>>,
           NewLive' = NewLive, NewStored' = NewStored, NewBacked' = NewBacked,
           GopStored' = GopStored, GopBacked' = GopBacked
    PROVE  Tables'
<1>1. DOMAIN dev'.res = DOMAIN dev.res /\ DOMAIN dev'.host = DOMAIN dev.host
  BY DEF SameHeld
<1>2. GopLive => Holds(dev', gop.id, gop.size, IF GopBacked THEN gop.store ELSE NoStore)
  BY DEF SameHeld, Tables
<1>3. NewLive => Holds(dev', new.id, new.size, IF NewBacked THEN new.store ELSE NoStore)
  BY DEF SameHeld, Tables
<1>4. GopLive' = GopLive
  BY DEF GopLive
<1> QED
  BY <1>1, <1>2, <1>3, <1>4 DEF Tables

(* ScanoutStep: the screen shows the new resource, or the call is undone.       *)
LEMMA ScanoutStepInv ==
    ASSUME IInv, ScanoutStep, UNCHANGED system
    PROVE  IInv'
<1>1. /\ pc = "scanout" /\ child # "os" /\ Lives /\ Tables /\ Shows /\ IsDevice(dev) /\ Books(dev)
      /\ new.id \in AllIds /\ new.size \in Nat /\ new.id # None
  BY DEF ScanoutStep, IInv, Firmware, Calls, AllIds, Lives, NewLive, Making
<1>2. UNCHANGED <<pages, gop, child, new, before>>
  BY Zenon DEF ScanoutStep, local, system
<1>3. /\ IsDevice(dev') /\ Books(dev') /\ dev'.res = dev.res /\ dev'.host = dev.host
      /\ DOMAIN dev'.outs = DOMAIN dev.outs
      /\ \/ /\ pc' = "detach" /\ \A t \in DOMAIN dev.outs : dev'.outs[t].res = dev.outs[t].res
            /\ dev' = dev \/ ~dev'.outs[0].surface
         \/ /\ pc' = (IF gop.id = None THEN "commit" ELSE "flush")
            /\ 0 \in DOMAIN dev.outs /\ dev'.outs[0].res = new.id
            /\ dev'.outs[0].surface /\ dev'.outs[0].size = new.size
  <2> DEFINE good == IF gop.id = None THEN "commit" ELSE "flush"
  <2>1. Send(SetScanout(dev, 0, new.id, new.size), good, "detach")
    BY DEF ScanoutStep
  <2> HIDE DEF good
  <2>2. /\ IsDevice(dev') /\ Books(dev') /\ dev'.res = dev.res /\ dev'.host = dev.host
        /\ DOMAIN dev'.outs = DOMAIN dev.outs
        /\ \/ /\ pc' = "detach" /\ \A t \in DOMAIN dev.outs : dev'.outs[t].res = dev.outs[t].res
              /\ dev' = dev \/ ~dev'.outs[0].surface
           \/ /\ pc' = good /\ 0 \in DOMAIN dev.outs /\ dev'.outs[0].res = new.id
              /\ dev'.outs[0].surface /\ dev'.outs[0].size = new.size
    BY <1>1, <2>1, ScanoutSent, Zenon
  <2> QED
    BY <2>2 DEF good
<1>4. pc' \in {"detach", "commit", "flush"} /\ (pc' = "flush" => GopLive) /\ (pc' = "commit" => ~GopLive)
  BY <1>3 DEF GopLive
<1>5. child = "init" => ~GopLive
  BY <1>1 DEF Lives, Making
<1>6. Calls'
  BY <1>1, <1>2, <1>4, <1>5 DEF IInv, Calls, Old, Making
<1>7. /\ NewLive' = NewLive /\ NewStored' = NewStored /\ NewBacked' = NewBacked
      /\ GopStored' = GopStored /\ GopBacked' = GopBacked /\ GopLive' = GopLive
  BY <1>1, <1>2, <1>4 DEF NewLive, NewStored, NewBacked, GopStored, GopBacked, GopLive, Making, Old
<1>8. Lives'
  BY <1>1, <1>2, <1>4, <1>7 DEF Lives, Old, Making
<1>9. Tables'
  <2>1. SameHeld(dev, dev')
    BY <1>3, SameTablesHeld
  <2> QED
    BY <1>1, <1>2, <1>7, <2>1, SameHeldInv, Zenon
<1>10. Shows' /\ Committing'
  <2>0. dark' <=> (pc' = "detach" /\ (dark \/ dev' # dev))
    BY Zenon DEF ScanoutStep
  <2>1. CASE pc' = "detach" /\ dev' = dev
    <3>1. dark' <=> dark
      BY <2>0, <2>1, Zenon
    <3>2. Current' = Current
      BY <1>1, <1>2, <2>1 DEF Current, Flipped, Old
    <3>3. child = "up" => Lit(Current.size)'
      BY <1>1, <2>1, <3>1, <3>2, Zenon DEF Shows, Lit, Screen
    <3>4. child = "up" => 0 \in DOMAIN dev'.outs /\ Screen'.res = Current'.id
      BY <1>1, <2>1, <3>2, Zenon DEF Shows, Screen
    <3> QED
      BY <1>2, <2>1, <3>3, <3>4, Zenon DEF Shows, Committing
  <2>2. CASE pc' = "detach" /\ dev' # dev
    <3>1. dark' /\ ~Screen'.surface
      BY <1>3, <2>0, <2>2, Zenon DEF Screen
    <3>2. Lit(Current.size)'
      BY <3>1, Zenon DEF Lit
    <3>3. Current' = gop /\ Current = gop
      BY <1>1, <1>2, <2>2 DEF Current, Flipped, Old
    <3>4. child = "up" => 0 \in DOMAIN dev'.outs /\ Screen'.res = Current'.id
      BY <1>1, <1>3, <2>2, <3>3 DEF Shows, Screen
    <3> QED
      BY <1>2, <2>2, <3>2, <3>4, Zenon DEF Shows, Committing
  <2>3. CASE pc' \in {"commit", "flush"}
    <3>1. /\ 0 \in DOMAIN dev'.outs /\ Screen'.res = new.id /\ Screen'.surface /\ Screen'.size = new.size
      BY <1>3, <2>3 DEF Screen
    <3>2. Current' = new /\ new' = new
      BY <1>2, <2>3 DEF Current, Flipped
    <3>3. Lit(Current.size)' /\ Lit(new.size)'
      BY <3>1, <3>2, Zenon DEF Lit
    <3> QED
      BY <3>1, <3>2, <3>3, Zenon DEF Shows, Committing
  <2> QED
    BY <1>4, <2>1, <2>2, <2>3
<1> QED
  BY <1>1, <1>2, <1>3, <1>6, <1>8, <1>9, <1>10, StepInv, Zenon

(* FlushStep: on failure the screen is given back first.                        *)
LEMMA FlushStepInv ==
    ASSUME IInv, FlushStep, UNCHANGED system
    PROVE  IInv'
<1>1. /\ pc = "flush" /\ child # "os" /\ Lives /\ Tables /\ Shows /\ IsDevice(dev) /\ Books(dev)
      /\ child = "up"
  BY DEF FlushStep, IInv, Firmware, Calls, Old
<1>2. UNCHANGED <<pages, gop, child, new, before, dark>>
  BY DEF FlushStep, local, system
<1>3. /\ IsDevice(dev') /\ Books(dev') /\ dev'.outs = dev.outs /\ SameTables(dev, dev')
      /\ pc' = "old detach" \/ pc' = "flip back"
  BY <1>1, FlushSent DEF FlushStep
<1>6. Calls'
  BY <1>1, <1>2, <1>3 DEF IInv, Calls, Old, Making
<1>7. /\ NewLive' = NewLive /\ NewStored' = NewStored /\ NewBacked' = NewBacked
      /\ GopStored' = GopStored /\ GopBacked' = GopBacked /\ GopLive' = GopLive
  BY <1>1, <1>2, <1>3 DEF NewLive, NewStored, NewBacked, GopStored, GopBacked, GopLive, Making, Old
<1>8. Lives'
  BY <1>1, <1>2, <1>3, <1>7 DEF Lives, Old, Making
<1>9. Tables'
  BY <1>1, <1>2, <1>3, <1>7, SameTablesHeld, SameHeldInv
<1>10. Shows' /\ Committing'
  <2>1. child' = "up" => child = "up" /\ Current' = Current
    BY <1>1, <1>2, <1>3 DEF Current, Flipped, Old
  <2> QED
    BY <1>1, <1>2, <1>3, <2>1, ShowsKept DEF Committing
<1> QED
  BY <1>1, <1>2, <1>3, <1>6, <1>8, <1>9, <1>10, StepInv

(* FlipBackStep: the old resource is shown again before the new one goes.       *)
LEMMA FlipBackStepInv ==
    ASSUME IInv, FlipBackStep, UNCHANGED system
    PROVE  IInv'
<1>1. /\ pc = "flip back" /\ child # "os" /\ Lives /\ Tables /\ Shows /\ IsDevice(dev) /\ Books(dev)
      /\ child = "up" /\ gop.id \in AllIds /\ gop.size \in Nat /\ gop.id # None
  BY DEF FlipBackStep, IInv, Firmware, Calls, Old, AllIds, Lives, GopLive
<1>2. UNCHANGED <<pages, gop, child, new, before, dark>>
  BY DEF FlipBackStep, local, system
<1>3. /\ IsDevice(dev') /\ Books(dev') /\ dev'.res = dev.res /\ dev'.host = dev.host
      /\ \/ pc' = "hung"
         \/ /\ pc' = "detach" /\ 0 \in DOMAIN dev'.outs /\ dev'.outs[0].res = gop.id
            /\ dev'.outs[0].surface /\ dev'.outs[0].size = gop.size
  <2>1. Send(SetScanout(dev, 0, gop.id, gop.size), "detach", "hung")
    BY DEF FlipBackStep
  <2>2. /\ IsDevice(dev') /\ Books(dev') /\ dev'.res = dev.res /\ dev'.host = dev.host
        /\ DOMAIN dev'.outs = DOMAIN dev.outs
        /\ \/ pc' = "hung"
           \/ /\ pc' = "detach" /\ 0 \in DOMAIN dev.outs /\ dev'.outs[0].res = gop.id
              /\ dev'.outs[0].surface /\ dev'.outs[0].size = gop.size
    BY <1>1, <2>1, ScanoutSent, Zenon
  <2> QED
    BY <2>2
<1>6. Calls'
  BY <1>1, <1>2, <1>3 DEF IInv, Calls, Old, Making
<1>7. CASE pc' = "hung"
  BY <1>1, <1>2, <1>3, <1>6, <1>7, HungInv
<1>8. CASE /\ pc' = "detach" /\ 0 \in DOMAIN dev'.outs /\ dev'.outs[0].res = gop.id
           /\ dev'.outs[0].surface /\ dev'.outs[0].size = gop.size
  <2>1. /\ NewLive' = NewLive /\ NewStored' = NewStored /\ NewBacked' = NewBacked
        /\ GopStored' = GopStored /\ GopBacked' = GopBacked /\ GopLive' = GopLive
    BY <1>1, <1>2, <1>8 DEF NewLive, NewStored, NewBacked, GopStored, GopBacked, GopLive, Making, Old
  <2>2. Lives'
    BY <1>1, <1>2, <1>8, <2>1 DEF Lives, Old, Making
  <2>3. Tables'
    <3>1. SameHeld(dev, dev')
      BY <1>3, SameTablesHeld
    <3> QED
      BY <1>1, <1>2, <2>1, <3>1, SameHeldInv
  <2>4. Shows' /\ Committing'
    <3>1. Current' = gop /\ gop' = gop
      BY <1>2, <1>8 DEF Current, Flipped, Old
    <3>2. Lit(Current.size)'
      BY <1>8, <3>1, Zenon DEF Lit, Screen
    <3> QED
      BY <1>8, <3>1, <3>2 DEF Shows, Committing, Screen
  <2> QED
    BY <1>1, <1>2, <1>3, <1>6, <2>2, <2>3, <2>4, StepInv
<1> QED
  BY <1>3, <1>7, <1>8

(* HeadStep: nothing is shown before the old resource goes.                     *)
LEMMA HeadStepInv ==
    ASSUME IInv, HeadStep, UNCHANGED system
    PROVE  IInv'
<1>1. /\ pc = "head" /\ child # "os" /\ child # "up" /\ Lives /\ Tables /\ IsDevice(dev) /\ Books(dev)
      /\ None \in AllIds
  BY DEF HeadStep, IInv, Firmware, Calls, AllIds
<1>2. UNCHANGED <<pages, gop, child, new, before, dark>>
  BY DEF HeadStep, local, system
<1>3. /\ IsDevice(dev') /\ Books(dev') /\ dev'.res = dev.res /\ dev'.host = dev.host
      /\ pc' = "old detach"
  <2>1. Send(SetScanout(dev, 0, None, 0), "old detach", "old detach")
    BY DEF HeadStep
  <2> QED
    BY <1>1, <2>1, ScanoutSent
<1>6. Calls'
  BY <1>1, <1>2, <1>3 DEF IInv, Calls, Old, Making
<1>7. /\ NewLive' = NewLive /\ NewStored' = NewStored /\ NewBacked' = NewBacked
      /\ GopStored' = GopStored /\ GopBacked' = GopBacked /\ GopLive' = GopLive
  BY <1>1, <1>2, <1>3 DEF NewLive, NewStored, NewBacked, GopStored, GopBacked, GopLive, Making, Old
<1>8. Lives'
  BY <1>1, <1>2, <1>3, <1>7 DEF Lives, Old, Making
<1>9. Tables'
  <2>1. SameHeld(dev, dev')
    BY <1>3, SameTablesHeld
  <2> QED
    BY <1>1, <1>2, <1>7, <2>1, SameHeldInv
<1>10. Shows' /\ Committing'
  BY <1>1, <1>2, <1>3 DEF Shows, Committing
<1> QED
  BY <1>1, <1>2, <1>3, <1>6, <1>8, <1>9, <1>10, StepInv

(* OldDetachStep: the host forgets the old store.                               *)
LEMMA OldDetachStepInv ==
    ASSUME IInv, OldDetachStep, UNCHANGED system
    PROVE  IInv'
<1>1. /\ pc = "old detach" /\ child # "os" /\ Lives /\ Tables /\ Shows /\ IsDevice(dev) /\ Books(dev)
      /\ GopLive /\ (NewLive => new.id # gop.id) /\ NoStore \in Backing
  BY DEF OldDetachStep, IInv, Firmware, Calls, Lives, Old, Backing
<1>2. UNCHANGED <<pages, gop, child, new, before, dark>>
  BY DEF OldDetachStep, local, system
<1>4. /\ IsDevice(dev') /\ Books(dev')
      /\ \/ pc' = "hung" /\ dev' = dev
         \/ /\ pc' = "old free" /\ dev'.outs = dev.outs
            /\ DOMAIN dev'.res = DOMAIN dev.res /\ DOMAIN dev'.host = DOMAIN dev.host
            /\ \A size, st : Holds(dev, gop.id, size, st) => Holds(dev', gop.id, size, NoStore)
            /\ \A i, size, st : i # gop.id /\ Holds(dev, i, size, st) => Holds(dev', i, size, st)
  <2>1. Send(SetBacking(dev, gop.id, NoStore), "old free", "hung")
    BY DEF OldDetachStep, DetachBacking
  <2> QED
    BY <1>1, <2>1, BackingSent, Zenon
<1>5. Calls'
  BY <1>1, <1>2, <1>4 DEF IInv, Calls, Old, Making
<1>6. CASE pc' = "hung" /\ dev' = dev
  BY <1>1, <1>2, <1>4, <1>5, <1>6, HungInv
<1>7. CASE /\ pc' = "old free" /\ dev'.outs = dev.outs
           /\ DOMAIN dev'.res = DOMAIN dev.res /\ DOMAIN dev'.host = DOMAIN dev.host
           /\ \A size, st : Holds(dev, gop.id, size, st) => Holds(dev', gop.id, size, NoStore)
           /\ \A i, size, st : i # gop.id /\ Holds(dev, i, size, st) => Holds(dev', i, size, st)
  <2>1. /\ NewLive' = NewLive /\ NewStored' = NewStored /\ NewBacked' = NewBacked
        /\ GopStored' = GopStored /\ GopLive' = GopLive
    BY <1>1, <1>2, <1>7 DEF NewLive, NewStored, NewBacked, GopLive, GopStored, Making, Old
  <2>2. Lives'
    BY <1>1, <1>2, <1>7, <2>1 DEF Lives, Old, Making
  <2>3. ~GopBacked'
    BY <1>7 DEF GopBacked
  <2>4. Holds(dev', gop.id, gop.size, NoStore)
    BY <1>1, <1>7 DEF Tables
  <2>5. NewLive => Holds(dev', new.id, new.size, IF NewBacked THEN new.store ELSE NoStore)
    BY <1>1, <1>7 DEF Tables
  <2>6. Tables'
    BY <1>1, <1>2, <1>7, <2>1, <2>3, <2>4, <2>5 DEF Tables
  <2>7. Shows' /\ Committing'
    <3>1. child' = "up" => child = "up" /\ Current' = Current
      BY <1>1, <1>2, <1>7 DEF Current, Flipped, Old
    <3> QED
      BY <1>1, <1>2, <1>7, <3>1, ShowsKept DEF Committing
  <2> QED
    BY <1>1, <1>2, <1>4, <1>5, <2>2, <2>6, <2>7, StepInv
<1> QED
  BY <1>4, <1>6, <1>7

(* OldFreeStep: a store that is freed is behind no resource.                    *)
LEMMA OldFreeStepInv ==
    ASSUME IInv, OldFreeStep, UNCHANGED system
    PROVE  IInv'
<1>1. /\ pc = "old free" /\ child # "os" /\ Lives /\ Tables /\ Shows /\ IsDevice(dev) /\ Books(dev)
      /\ GopLive /\ gop \in [id : {None, 1, 2}, store : Backing, size : Nat]
  BY DEF OldFreeStep, IInv, Firmware, Calls, Lives, Old, Backing
<1>2. /\ UNCHANGED <<dev, child, new, before, dark>> /\ pc' = "old unref" /\ pages' = pages \ {gop.store}
      /\ gop' = [gop EXCEPT !.store = NoStore]
  BY DEF OldFreeStep, system
<1>3. /\ gop'.id = gop.id /\ gop'.size = gop.size /\ gop'.store = NoStore
      /\ gop' \in [id : {None, 1, 2}, store : Backing, size : Nat]
  BY <1>1, <1>2 DEF Backing
<1>5. Calls'
  BY <1>1, <1>2, <1>3 DEF IInv, Calls, Old, Making
<1>6. /\ NewLive' = NewLive /\ NewStored' = NewStored /\ NewBacked' = NewBacked
      /\ ~GopStored' /\ GopStored /\ ~GopBacked /\ ~GopBacked' /\ GopLive' = GopLive
  BY <1>1, <1>2, <1>3 DEF NewLive, NewStored, NewBacked, GopBacked, GopLive, GopStored, Making, Old
<1>7. Lives'
  BY <1>1, <1>2, <1>3, <1>6 DEF Lives, Old, Making
<1>8. pages' = {st \in {new.store} : NewStored}
  BY <1>1, <1>2, <1>6 DEF Tables, Lives
<1>9. Tables'
  BY <1>1, <1>2, <1>3, <1>6, <1>8 DEF Tables
<1>10. Shows' /\ Committing'
  <2>1. child' = "up" => child = "up" /\ Current' = Current
    BY <1>1, <1>2, <1>3 DEF Current, Flipped, Old
  <2> QED
    BY <1>1, <1>2, <1>3, <2>1, ShowsKept DEF Committing
<1> QED
  BY <1>1, <1>2, <1>5, <1>7, <1>9, <1>10, StepInv

(* OldUnrefStep: the old resource is gone and the new one takes its place.      *)
LEMMA OldUnrefStepInv ==
    ASSUME IInv, OldUnrefStep, UNCHANGED system
    PROVE  IInv'
<1>1. /\ pc = "old unref" /\ child # "os" /\ Lives /\ Tables /\ Shows /\ IsDevice(dev) /\ Books(dev)
      /\ GopLive /\ (NewLive => new.id # gop.id) /\ (NewLive <=> child = "up")
  BY DEF OldUnrefStep, IInv, Firmware, Calls, Lives, Old, NewLive, Making
<1>2. UNCHANGED <<pages, new, before, dark>> /\ gop' = NoGop /\ child' = IF child = "up" THEN "up" ELSE "none"
  BY DEF OldUnrefStep, system
<1>3. gop.id \in DOMAIN dev.res /\ dev.res[gop.id].ext = FALSE
  BY <1>1 DEF Tables, Holds, IsDevice, Resource
<1>4. /\ IsDevice(dev') /\ Books(dev')
      /\ \/ pc' = "hung" /\ dev' = dev
         \/ /\ pc' = (IF child = "up" THEN "commit" ELSE "idle") /\ dev'.outs = dev.outs
            /\ DOMAIN dev'.res = DOMAIN dev.res \ {gop.id}
            /\ DOMAIN dev'.host = DOMAIN dev.host \ {gop.id}
            /\ \A i, size, st : i # gop.id /\ Holds(dev, i, size, st) => Holds(dev', i, size, st)
  <2> DEFINE good == IF child = "up" THEN "commit" ELSE "idle"
  <2>1. Send(UnrefResource(dev, gop.id), good, "hung")
    BY DEF OldUnrefStep
  <2> HIDE DEF good
  <2>2. /\ IsDevice(dev') /\ Books(dev')
        /\ \/ pc' = "hung" /\ dev' = dev
           \/ /\ pc' = good /\ dev'.outs = dev.outs
              /\ DOMAIN dev'.res = DOMAIN dev.res \ {gop.id}
              /\ DOMAIN dev'.host = DOMAIN dev.host \ {gop.id}
              /\ \A i, size, st : i # gop.id /\ Holds(dev, i, size, st) => Holds(dev', i, size, st)
    BY <1>1, <1>3, <2>1, UnrefSent, Zenon
  <2> QED
    BY <2>2, Zenon DEF good
<1>5. NoGop \in [id : {None, 1, 2}, store : Backing, size : Nat] /\ NoGop.id = None
  BY Zenon DEF NoGop, Backing
<1>6. CASE pc' = "hung" /\ dev' = dev
  <2>1. Calls'
    BY <1>1, <1>2, <1>5, <1>6 DEF IInv, Calls, Old, Making
  <2>2. BackingSafe'
    BY <1>1, <1>2, <1>6 DEF IInv, BackingSafe
  <2>3. RestoreFaithful'
    BY <1>1, <1>2 DEF IInv, Calls, RestoreFaithful, OS!RestoreFaithful
  <2>4. Firmware'
    BY <1>6 DEF Firmware
  <2> QED
    BY <1>4, <2>1, <2>2, <2>3, <2>4 DEF IInv
<1>7. CASE /\ pc' = (IF child = "up" THEN "commit" ELSE "idle") /\ dev'.outs = dev.outs
           /\ DOMAIN dev'.res = DOMAIN dev.res \ {gop.id}
           /\ DOMAIN dev'.host = DOMAIN dev.host \ {gop.id}
           /\ \A i, size, st : i # gop.id /\ Holds(dev, i, size, st) => Holds(dev', i, size, st)
  <2>1. Calls'
    BY <1>1, <1>2, <1>5, <1>7 DEF IInv, Calls, Old, Making
  <2>2. /\ NewLive' = NewLive /\ NewStored' = NewStored /\ NewBacked' = NewBacked
        /\ ~GopLive' /\ ~GopStored' /\ ~GopStored /\ ~GopBacked'
    BY <1>1, <1>2, <1>5, <1>7 DEF NewLive, NewStored, NewBacked, GopLive, GopStored, GopBacked, Making, Old
  <2>3. Lives'
    BY <1>1, <1>2, <1>5, <1>7, <2>2 DEF Lives, Old, Making
  <2>5. NewLive => Holds(dev', new.id, new.size, IF NewBacked THEN new.store ELSE NoStore)
    BY <1>1, <1>7 DEF Tables
  <2>6. DOMAIN dev'.res = {id \in {new.id} : NewLive} /\ DOMAIN dev'.host = DOMAIN dev'.res
    BY <1>1, <1>7 DEF Tables
  <2>7. Tables'
    BY <1>1, <1>2, <2>2, <2>5, <2>6 DEF Tables
  <2>8. Shows' /\ Committing'
    <3>1. CASE child = "up"
      <4>1. pc' = "commit" /\ dev'.outs = dev.outs /\ new' = new /\ child' = "up" /\ dark' = dark
        BY <1>2, <1>7, <3>1, Zenon
      <4>2. Flipped /\ Flipped'
        BY <1>1, <4>1 DEF Flipped, Old
      <4>3. Current = new /\ Current' = new
        BY <4>1, <4>2, Zenon DEF Current
      <4>4. Shows'
        BY <1>1, <3>1, <4>1, <4>3, ShowsKept, Zenon
      <4> QED
        BY <4>1, <4>3, <4>4, Zenon DEF Shows, Committing
    <3>2. CASE child # "up"
      BY <1>2, <1>7, <3>2 DEF Shows, Committing
    <3> QED
      BY <3>1, <3>2, Zenon
  <2>9. child' # "os"
    BY <1>2, Zenon
  <2> QED
    BY <1>1, <1>2, <1>4, <2>1, <2>3, <2>7, <2>8, <2>9, StepInv
<1> QED
  BY <1>4, <1>6, <1>7, Zenon

(* CommitStep: the new resource becomes the driver's.                           *)
LEMMA CommitStepInv ==
    ASSUME IInv, CommitStep, UNCHANGED system
    PROVE  IInv'
<1>1. /\ pc = "commit" /\ child # "os" /\ Lives /\ Tables /\ Committing /\ IsDevice(dev) /\ Books(dev)
      /\ child \in {"init", "up"} /\ ~GopLive /\ ~GopStored /\ new.id # None
  BY DEF CommitStep, IInv, Firmware, Calls, Lives, NewLive, Making, Old, GopStored
<1>2. /\ UNCHANGED <<dev, pages, new, before, dark>> /\ gop' = new
      /\ (pc' = "idle" /\ child' = "up") \/ (pc' = "head" /\ child = "init" /\ child' = "init")
  BY DEF CommitStep, system
<1>3. NewLive /\ NewStored /\ NewBacked
  BY <1>1 DEF NewLive, NewStored, NewBacked, Making
<1>4. /\ ~NewLive' /\ ~NewStored' /\ ~NewBacked' /\ GopLive' /\ GopStored' /\ GopBacked'
  BY <1>1, <1>2 DEF NewLive, NewStored, NewBacked, GopLive, GopStored, GopBacked, Making, Old
<1>5. Calls'
  BY <1>1, <1>2 DEF IInv, Calls, Old, Making
<1>6. Lives'
  BY <1>1, <1>2, <1>3, <1>4 DEF Lives, Old, Making
<1>7. Tables'
  BY <1>1, <1>2, <1>3, <1>4, Zenon DEF Tables
<1>8. Shows' /\ Committing'
  <2>1. Screen' = Screen /\ dev'.outs = dev.outs /\ Current' = new /\ pc' # "commit"
    BY <1>2 DEF Screen, Current, Flipped, Old
  <2>2. 0 \in DOMAIN dev.outs /\ Screen.res = new.id /\ Lit(new.size)
    BY <1>1, Zenon DEF Committing
  <2>3. Lit(Current.size)'
    BY <1>2, <2>1, <2>2, Zenon DEF Lit
  <2> QED
    BY <2>1, <2>2, <2>3, Zenon DEF Shows, Committing
<1>9. child' # "os"
  BY <1>2
<1> QED
  BY <1>1, <1>2, <1>5, <1>6, <1>7, <1>8, <1>9, StepInv, Zenon

(* DetachStep: the undo of a call, the host forgets the new store.              *)
LEMMA DetachStepInv ==
    ASSUME IInv, DetachStep, UNCHANGED system
    PROVE  IInv'
<1>1. /\ pc = "detach" /\ child # "os" /\ Lives /\ Tables /\ Shows /\ IsDevice(dev) /\ Books(dev)
      /\ new.id # None /\ new.id # gop.id /\ NoStore \in Backing
  BY DEF DetachStep, IInv, Firmware, Calls, Lives, NewLive, Making, Backing
<1>2. UNCHANGED <<pages, gop, child, new, before, dark>>
  BY DEF DetachStep, local, system
<1>3. NewLive /\ NewStored /\ NewBacked
  BY <1>1 DEF NewLive, NewStored, NewBacked, Making
<1>4. /\ IsDevice(dev') /\ Books(dev')
      /\ \/ pc' = "hung" /\ dev' = dev
         \/ /\ pc' = "free" /\ dev'.outs = dev.outs
            /\ DOMAIN dev'.res = DOMAIN dev.res /\ DOMAIN dev'.host = DOMAIN dev.host
            /\ \A size, st : Holds(dev, new.id, size, st) => Holds(dev', new.id, size, NoStore)
            /\ \A i, size, st : i # new.id /\ Holds(dev, i, size, st) => Holds(dev', i, size, st)
  <2>1. Send(SetBacking(dev, new.id, NoStore), "free", "hung")
    BY DEF DetachStep, DetachBacking
  <2> QED
    BY <1>1, <2>1, BackingSent, Zenon
<1>5. Calls'
  BY <1>1, <1>2, <1>4 DEF IInv, Calls, Old, Making
<1>6. CASE pc' = "hung" /\ dev' = dev
  BY <1>1, <1>2, <1>4, <1>5, <1>6, HungInv, Zenon
<1>7. CASE /\ pc' = "free" /\ dev'.outs = dev.outs
           /\ DOMAIN dev'.res = DOMAIN dev.res /\ DOMAIN dev'.host = DOMAIN dev.host
           /\ \A size, st : Holds(dev, new.id, size, st) => Holds(dev', new.id, size, NoStore)
           /\ \A i, size, st : i # new.id /\ Holds(dev, i, size, st) => Holds(dev', i, size, st)
  <2>1. /\ NewLive' /\ NewStored' /\ ~NewBacked'
        /\ GopStored' = GopStored /\ GopBacked' = GopBacked /\ GopLive' = GopLive
    BY <1>1, <1>2, <1>7, Zenon DEF NewLive, NewStored, NewBacked, GopLive, GopStored, GopBacked, Making, Old
  <2>2. Lives'
    BY <1>1, <1>2, <1>3, <1>7, <2>1, Zenon DEF Lives, Old, Making
  <2>3. Holds(dev', new.id, new.size, NoStore)
    BY <1>1, <1>3, <1>7, Zenon DEF Tables
  <2>4. GopLive => Holds(dev', gop.id, gop.size, IF GopBacked THEN gop.store ELSE NoStore)
    BY <1>1, <1>7, Zenon DEF Tables
  <2>5. Tables'
    BY <1>1, <1>2, <1>3, <1>7, <2>1, <2>3, <2>4, Zenon DEF Tables
  <2>6. Shows' /\ Committing'
    <3>1. child' = "up" => child = "up" /\ Current' = Current
      BY <1>1, <1>2, <1>7 DEF Current, Flipped, Old
    <3> QED
      BY <1>1, <1>2, <1>7, <3>1, ShowsKept DEF Committing
  <2> QED
    BY <1>1, <1>2, <1>4, <1>5, <2>2, <2>5, <2>6, StepInv, Zenon
<1> QED
  BY <1>4, <1>6, <1>7, Zenon

(* FreeStep: it is freed after that.                                            *)
LEMMA FreeStepInv ==
    ASSUME IInv, FreeStep, UNCHANGED system
    PROVE  IInv'
<1>1. /\ pc = "free" /\ child # "os" /\ Lives /\ Tables /\ Shows /\ IsDevice(dev) /\ Books(dev)
  BY DEF FreeStep, IInv, Firmware, Calls
<1>2. UNCHANGED <<dev, gop, child, new, before, dark>> /\ pc' = "unref" /\ pages' = pages \ {new.store}
  BY DEF FreeStep, system
<1>3. NewLive /\ NewStored /\ ~NewBacked
  BY <1>1, Zenon DEF NewLive, NewStored, NewBacked, Making
<1>5. Calls'
  BY <1>1, <1>2, Zenon DEF IInv, Calls, Old, Making
<1>6. /\ NewLive' /\ ~NewStored' /\ ~NewBacked'
      /\ GopStored' = GopStored /\ GopBacked' = GopBacked /\ GopLive' = GopLive
  BY <1>1, <1>2, Zenon DEF NewLive, NewStored, NewBacked, GopBacked, GopLive, GopStored, Making, Old
<1>7. Lives'
  BY <1>1, <1>2, <1>3, <1>6, Zenon DEF Lives, Old, Making
<1>8. pages' = {st \in {gop.store} : GopStored}
  BY <1>1, <1>2, <1>3, Zenon DEF Tables, Lives
<1>9. Tables'
  BY <1>1, <1>2, <1>3, <1>6, <1>8, Zenon DEF Tables
<1>10. Shows' /\ Committing'
  <2>1. child' = "up" => child = "up" /\ Current' = Current
    BY <1>1, <1>2 DEF Current, Flipped, Old
  <2> QED
    BY <1>1, <1>2, <2>1, ShowsKept DEF Committing
<1> QED
  BY <1>1, <1>2, <1>5, <1>7, <1>9, <1>10, StepInv, Zenon

(* UnrefStep: the new resource is gone, the old one is as before.               *)
LEMMA UnrefStepInv ==
    ASSUME IInv, UnrefStep, UNCHANGED system
    PROVE  IInv'
<1>1. /\ pc = "unref" /\ child # "os" /\ Lives /\ Tables /\ Shows /\ IsDevice(dev) /\ Books(dev)
      /\ new.id # gop.id
  BY DEF UnrefStep, IInv, Firmware, Calls, Lives, NewLive, Making
<1>2. /\ UNCHANGED <<pages, gop, new, before, dark>>
      /\ child' = IF child = "init" THEN "none" ELSE child
  BY DEF UnrefStep, system
<1>3. NewLive /\ ~NewStored /\ ~NewBacked
  BY <1>1, Zenon DEF NewLive, NewStored, NewBacked, Making
<1>4. new.id \in DOMAIN dev.res /\ dev.res[new.id].ext = FALSE
  BY <1>1, <1>3 DEF Tables, Holds, IsDevice, Resource
<1>5. /\ IsDevice(dev') /\ Books(dev')
      /\ \/ pc' = "hung" /\ dev' = dev
         \/ /\ pc' = "idle" /\ dev'.outs = dev.outs
            /\ DOMAIN dev'.res = DOMAIN dev.res \ {new.id}
            /\ DOMAIN dev'.host = DOMAIN dev.host \ {new.id}
            /\ \A i, size, st : i # new.id /\ Holds(dev, i, size, st) => Holds(dev', i, size, st)
  <2>1. Send(UnrefResource(dev, new.id), "idle", "hung")
    BY Zenon DEF UnrefStep
  <2> QED
    BY <1>1, <1>4, <2>1, UnrefSent, Zenon
<1>6. Calls' /\ child' # "os"
  BY <1>1, <1>2, <1>5 DEF IInv, Calls, Old, Making
<1>7. CASE pc' = "hung" /\ dev' = dev
  <2>1. BackingSafe'
    BY <1>1, <1>2, <1>7, Zenon DEF IInv, BackingSafe
  <2>2. RestoreFaithful'
    BY <1>1, <1>2, Zenon DEF IInv, Calls, RestoreFaithful, OS!RestoreFaithful
  <2>3. Firmware'
    BY <1>7 DEF Firmware
  <2> QED
    BY <1>5, <1>6, <2>1, <2>2, <2>3, Zenon DEF IInv
<1>8. CASE /\ pc' = "idle" /\ dev'.outs = dev.outs
           /\ DOMAIN dev'.res = DOMAIN dev.res \ {new.id}
           /\ DOMAIN dev'.host = DOMAIN dev.host \ {new.id}
           /\ \A i, size, st : i # new.id /\ Holds(dev, i, size, st) => Holds(dev', i, size, st)
  <2>1. /\ ~NewLive' /\ ~NewStored' /\ ~NewBacked'
        /\ GopStored' = GopStored /\ GopBacked' = GopBacked /\ GopLive' = GopLive
    BY <1>1, <1>2, <1>8, Zenon DEF NewLive, NewStored, NewBacked, GopBacked, GopLive, GopStored, Making, Old
  <2>2. child = "init" => ~GopLive
    BY <1>1, Zenon DEF Lives, Making
  <2>3. Lives'
    BY <1>1, <1>2, <1>8, <2>1, <2>2, Zenon DEF IInv, Calls, Lives, Old, Making
  <2>4. GopLive => Holds(dev', gop.id, gop.size, IF GopBacked THEN gop.store ELSE NoStore)
    BY <1>1, <1>8, Zenon DEF Tables
  <2>5. DOMAIN dev'.res = {id \in {gop.id} : GopLive} /\ DOMAIN dev'.host = DOMAIN dev'.res
    BY <1>1, <1>8, Zenon DEF Tables
  <2>6. Tables'
    BY <1>1, <1>2, <1>3, <2>1, <2>4, <2>5 DEF Tables
  <2>7. Shows' /\ Committing'
    <3>1. child' = "up" => child = "up" /\ Current' = Current
      BY <1>1, <1>2, <1>8 DEF Current, Flipped, Old
    <3> QED
      BY <1>1, <1>2, <1>8, <3>1, ShowsKept DEF Committing
  <2> QED
    BY <1>1, <1>2, <1>5, <1>6, <2>3, <2>6, <2>7, StepInv, Zenon
<1> QED
  BY <1>5, <1>7, <1>8, Zenon

(* UninitVgpuGop: starts to take the driver's only resource away.               *)
LEMMA UninitVgpuGopInv ==
    ASSUME IInv, UninitVgpuGop, UNCHANGED system
    PROVE  IInv'
<1>1. /\ pc = "idle" /\ child = "up" /\ Lives /\ Tables /\ IsDevice(dev) /\ Books(dev)
  BY DEF UninitVgpuGop, IInv, Firmware, Calls
<1>2. UNCHANGED <<dev, pages, gop, new, before, dark>> /\ pc' = "head" /\ child' = "none"
  BY Zenon DEF UninitVgpuGop, system
<1>3. Calls'
  BY <1>1, <1>2, Zenon DEF IInv, Calls, Old, Making
<1>4. /\ NewLive' = NewLive /\ NewStored' = NewStored /\ NewBacked' = NewBacked
      /\ GopStored' = GopStored /\ GopBacked' = GopBacked /\ GopLive' = GopLive
  BY <1>1, <1>2, Zenon DEF NewLive, NewStored, NewBacked, GopBacked, GopLive, GopStored, Making, Old
<1>5. Lives'
  BY <1>1, <1>2, <1>4, Zenon DEF Lives, Old, Making
<1>6. Tables'
  BY <1>1, <1>2, <1>4, Zenon DEF Tables
<1>7. Shows' /\ Committing'
  BY <1>2 DEF Shows, Committing
<1> QED
  BY <1>1, <1>2, <1>3, <1>5, <1>6, <1>7, StepInv, Zenon

(* A Blt's commands change no table.                                            *)
LEMMA BltInv ==
    ASSUME IInv, BltTransfer \/ BltFlush, UNCHANGED system
    PROVE  IInv'
<1>1. /\ pc \in {"idle", "show"} /\ child = "up" /\ Lives /\ Tables /\ Shows /\ IsDevice(dev) /\ Books(dev)
  BY DEF BltTransfer, BltFlush, IInv, Firmware, Calls, Old
<1>2. UNCHANGED <<pages, gop, child, new, before, dark>>
  BY Zenon DEF BltTransfer, BltFlush, local, system
<1>3. /\ IsDevice(dev') /\ Books(dev') /\ dev'.outs = dev.outs /\ SameTables(dev, dev')
      /\ pc' \in {"idle", "show"}
  <2>1. CASE BltTransfer
    BY <1>1, <2>1, TransferSent, Zenon DEF BltTransfer
  <2>2. CASE BltFlush
    BY <1>1, <2>2, FlushSent DEF BltFlush
  <2> QED
    BY <2>1, <2>2
<1>4. Calls'
  BY <1>1, <1>2, <1>3 DEF IInv, Calls, Old, Making
<1>5. /\ NewLive' = NewLive /\ NewStored' = NewStored /\ NewBacked' = NewBacked
      /\ GopStored' = GopStored /\ GopBacked' = GopBacked /\ GopLive' = GopLive
  BY <1>1, <1>2, <1>3 DEF NewLive, NewStored, NewBacked, GopBacked, GopLive, GopStored, Making, Old
<1>6. Lives'
  BY <1>1, <1>2, <1>3, <1>5 DEF Lives, Old, Making
<1>7. Tables'
  BY <1>1, <1>2, <1>3, <1>5, SameTablesHeld, SameHeldInv, Zenon
<1>8. Shows' /\ Committing'
  <2>1. child' = "up" => child = "up" /\ Current' = Current
    BY <1>1, <1>2, <1>3 DEF Current, Flipped, Old
  <2> QED
    BY <1>1, <1>2, <1>3, <2>1, ShowsKept DEF Committing
<1> QED
  BY <1>1, <1>2, <1>3, <1>4, <1>6, <1>7, <1>8, StepInv

-------------------------------------------------------------------------------
(* The reset between the drivers, and the resume of a snapshot.                 *)
LEMMA ResetIs ==
    ASSUME NEW d, IsDevice(d), Books(d)
    PROVE  IsDevice(ResetState(d)) /\ Books(ResetState(d))
<1> DEFINE e == ResetState(d)
           host == [id \in DOMAIN d.host \ DOMAIN d.res |-> d.host[id]]
           outs == [s \in DOMAIN d.outs |-> [d.outs[s] EXCEPT !.res = None]]
<1>1. e = [d EXCEPT !.res = EmptyMap, !.host = host, !.outs = outs]
  BY Zenon DEF ResetState
<1>2. host \in [DOMAIN host -> Host]
  BY DEF IsDevice
<1>3. outs \in [DOMAIN outs -> Output]
  <2>1. ASSUME NEW s \in DOMAIN d.outs PROVE [d.outs[s] EXCEPT !.res = None] \in Output
    <3>1. d.outs[s] \in Output
      BY DEF IsDevice
    <3> QED
      BY <3>1, Zenon DEF Output, AllIds
  <2> QED
    BY <2>1
<1>4. DOMAIN EmptyMap = {} /\ EmptyMap \in [DOMAIN EmptyMap -> Resource]
  BY DEF EmptyMap
<1>8. \A id \in DOMAIN host : host[id].mapped
  BY Zenon DEF Books
<1> HIDE DEF e, host, outs
<1>5. /\ e = [res |-> e.res, host |-> e.host, outs |-> e.outs, shm |-> e.shm, event |-> e.event]
      /\ e.res = EmptyMap /\ e.host = host /\ e.outs = outs /\ e.shm = d.shm /\ e.event = d.event
  BY <1>1, Zenon DEF IsDevice
<1>6. IsDevice(e)
  BY <1>2, <1>3, <1>4, <1>5 DEF IsDevice
<1>7. Books(e)
  BY <1>4, <1>5, <1>8 DEF Books
<1> QED
  BY <1>6, <1>7 DEF e

(* Saving and reattaching gives back the same tables.                           *)
LEMMA ResumeIs ==
    ASSUME NEW d, IsDevice(d), Books(d)
    PROVE  LET e == Reattached(Saved(d))
           IN  /\ IsDevice(e) /\ Books(e) /\ e.res = d.res /\ e.outs = d.outs
               /\ DOMAIN e.host = DOMAIN d.host
               /\ \A id \in DOMAIN d.res : e.host[id].backing = d.res[id].backing
<1> DEFINE snap == Saved(d)
           e == Reattached(snap)
           sh == [id \in DOMAIN d.host |-> [d.host[id] EXCEPT !.backing = NoStore]]
           eh == [id \in DOMAIN snap.host |->
                    IF id \in DOMAIN snap.res THEN [snap.host[id] EXCEPT !.backing = snap.res[id].backing]
                    ELSE snap.host[id]]
<1>1. snap = [d EXCEPT !.host = sh]
  BY DEF Saved
<1>2. e = [snap EXCEPT !.host = eh]
  BY DEF Reattached
<1> HIDE DEF snap, e
<1>3. /\ snap.res = d.res /\ snap.outs = d.outs /\ snap.shm = d.shm /\ snap.event = d.event
      /\ snap = [res |-> snap.res, host |-> snap.host, outs |-> snap.outs, shm |-> snap.shm,
                 event |-> snap.event]
      /\ snap.host = sh
  <2> HIDE DEF sh
  <2> QED
    BY <1>1 DEF IsDevice
<1>4. /\ e.res = d.res /\ e.outs = d.outs /\ e.shm = d.shm /\ e.event = d.event
      /\ e = [res |-> e.res, host |-> e.host, outs |-> e.outs, shm |-> e.shm, event |-> e.event]
      /\ e.host = eh
  <2> HIDE DEF eh
  <2> QED
    BY <1>2, <1>3, Zenon
<1>5. DOMAIN snap.host = DOMAIN d.host /\ DOMAIN e.host = DOMAIN d.host
  BY <1>3, <1>4, Zenon
<1>6. ASSUME NEW id \in DOMAIN d.host
      PROVE  /\ e.host[id] \in Host /\ e.host[id].size = d.host[id].size
             /\ e.host[id].mapped = d.host[id].mapped
             /\ id \in DOMAIN d.res => e.host[id].backing = d.res[id].backing
  <2>1. d.host[id] \in Host
    BY DEF IsDevice
  <2>2. snap.host[id] = [d.host[id] EXCEPT !.backing = NoStore]
    BY <1>3
  <2>3. /\ snap.host[id] \in Host /\ snap.host[id].size = d.host[id].size
        /\ snap.host[id].mapped = d.host[id].mapped
    BY <2>1, <2>2, Zenon DEF Host, Backing
  <2>4. CASE id \notin DOMAIN d.res
    BY <1>3, <1>4, <1>5, <2>3, <2>4, Zenon
  <2>5. CASE id \in DOMAIN d.res
    <3>1. d.res[id].backing \in Backing
      BY <2>5, Zenon DEF IsDevice, Resource
    <3>2. e.host[id] = [snap.host[id] EXCEPT !.backing = d.res[id].backing]
      BY <1>3, <1>4, <1>5, <2>5, Zenon
    <3> QED
      BY <2>3, <3>1, <3>2, Zenon DEF Host
  <2> QED
    BY <2>4, <2>5, Zenon
<1>7. e.host \in [DOMAIN e.host -> Host]
  <2>1. e.host = [id \in DOMAIN e.host |-> e.host[id]]
    BY <1>4
  <2> QED
    BY <1>5, <1>6, <2>1, Zenon
<1>8. IsDevice(e)
  BY <1>4, <1>7, Zenon DEF IsDevice
<1>9. Books(e)
  <2>1. ASSUME NEW id \in DOMAIN e.res
        PROVE  /\ e.host[id].size = e.res[id].size
               /\ e.host[id].backing \in {e.res[id].backing, NoStore}
               /\ e.res[id].ext => e.host[id].mapped
               /\ Placed(e, id)
    <3>1. id \in DOMAIN d.res /\ id \in DOMAIN d.host
      BY <1>4, Zenon DEF Books
    <3>2. e.host[id].size = d.host[id].size /\ e.host[id].mapped = d.host[id].mapped
      BY <1>6, <3>1, Zenon
    <3>3. e.host[id].backing = d.res[id].backing
      BY <1>6, <3>1, Zenon
    <3>4. Placed(e, id)
      <4>1. Placed(d, id)
        BY <3>1, Zenon DEF Books
      <4> QED
        BY <1>4, <4>1, SamePlaced, Zenon
    <3> QED
      BY Zenon, <1>4, <3>1, <3>2, <3>3, <3>4 DEF Books
  <2>2. DOMAIN e.res \subseteq DOMAIN e.host
    BY <1>4, <1>5 DEF Books
  <2>3. ASSUME NEW id \in DOMAIN e.host \ DOMAIN e.res PROVE e.host[id].mapped
    <3>1. id \in DOMAIN d.host /\ id \notin DOMAIN d.res
      BY <1>4, <1>5, Zenon
    <3> QED
      BY <1>6, <3>1, Zenon DEF Books
  <2> QED
    BY <2>1, <2>2, <2>3, Zenon DEF Books
<1> QED
  BY <1>4, <1>5, <1>6, <1>8, <1>9, Zenon DEF Books, e, snap

(* ExitBoot: the device is reset, and the memory is the system's.               *)
LEMMA ExitBootInv ==
    ASSUME IInv, ExitBoot, UNCHANGED system
    PROVE  IInv'
<1>1. /\ dev' = ResetState(dev) /\ child' = "os" /\ gop' = NoGop /\ new' = NoGop /\ pc' = "idle"
      /\ before' = before /\ child = "up" /\ IsDevice(dev) /\ Books(dev)
  BY DEF ExitBoot, system, IInv
<1>2. IsDevice(dev') /\ Books(dev')
  BY <1>1, ResetIs
<1>3. NoGop \in [id : {None, 1, 2}, store : Backing, size : Nat]
  BY DEF NoGop, Backing
<1>4. Calls'
  BY <1>1, <1>3, Zenon DEF Calls
<1>5. BackingSafe' /\ Firmware'
  BY <1>1, Zenon DEF BackingSafe, Firmware
<1>6. RestoreFaithful'
  BY <1>1, Zenon DEF IInv, Calls, RestoreFaithful, OS!RestoreFaithful
<1> QED
  BY <1>2, <1>4, <1>5, <1>6, Zenon DEF IInv

-------------------------------------------------------------------------------
(* The system's driver.                                                         *)

(* Its commands are those of the firmware's, one by one.                        *)
LEMMA SameNames == OS!None = None /\ OS!NoStore = NoStore /\ OS!EmptyMap = EmptyMap
  BY DEF OS!None, None, OS!NoStore, NoStore, OS!EmptyMap, EmptyMap

(* The replies are the same.                                                    *)
LEMMA SameReplies ==
    ASSUME NEW e
    PROVE  OS!Done(e) = Done(e) /\ OS!Refused(e) = Refused(e)
  BY DEF OS!Done, Done, OS!Refused, Refused, OS!Reply, Reply

(* Creation of a resource.                                                      *)
LEMMA SameCreate ==
    ASSUME NEW d, NEW id, NEW size, NEW x
    PROVE  OS!Create(d, id, size, x) = Create(d, id, size, x)
  BY SameNames, SameReplies, Zenon DEF OS!Create, Create, OS!Put, Put, OS!NewResource, NewResource, OS!NewHost, NewHost

(* Its memory.                                                                  *)
LEMMA SameBacking ==
    ASSUME NEW d, NEW id, NEW x
    PROVE  /\ OS!AttachBacking(d, id, x) = SetBacking(d, id, x)
           /\ OS!DetachBacking(d, id) = SetBacking(d, id, NoStore)
  BY SameNames, SameReplies, Zenon DEF OS!AttachBacking, OS!DetachBacking, OS!SetBacking, SetBacking

(* Its end.                                                                     *)
LEMMA SameUnref ==
    ASSUME NEW d, NEW id
    PROVE  OS!UnrefResource(d, id) = UnrefResource(d, id)
<1>1. ASSUME NEW f PROVE OS!Drop(f, id) = Drop(f, id)
  BY DEF OS!Drop, Drop
<1> DEFINE gone == [d EXCEPT !.res = Drop(d.res, id)]
           e == [gone EXCEPT !.host = Drop(gone.host, id)]
           gone2 == [d EXCEPT !.res = OS!Drop(d.res, id)]
           e2 == [gone2 EXCEPT !.host = OS!Drop(gone2.host, id)]
<1>2. OS!UnrefResource(d, id) = IF id \notin DOMAIN d.res THEN OS!Refused(d)
          ELSE OS!Done(e2) \union (IF d.res[id].ext THEN OS!Refused(gone2) ELSE {})
  BY Zenon DEF OS!UnrefResource
<1>4. gone2 = gone
  BY <1>1
<1>5. e2 = e
  <2> HIDE DEF gone, gone2
  <2> QED
    BY <1>1, <1>4
<1>3. UnrefResource(d, id) = IF id \notin DOMAIN d.res THEN Refused(d)
          ELSE Done(e) \union (IF d.res[id].ext THEN Refused(gone) ELSE {})
  BY Zenon DEF UnrefResource
<1> HIDE DEF e, gone, e2, gone2
<1> QED
  BY SameReplies, <1>2, <1>3, <1>4, <1>5

(* Transfers to the host.                                                       *)
LEMMA SameTransfer ==
    ASSUME NEW d, NEW id, NEW x
    PROVE  OS!TransferWrite(d, id, x) = TransferWrite(d, id, x)
  BY SameNames, SameReplies, Zenon DEF OS!TransferWrite, TransferWrite

(* Flushes.                                                                     *)
LEMMA SameFlush ==
    ASSUME NEW d, NEW id
    PROVE  OS!FlushResource(d, id) = FlushResource(d, id)
<1>1. OS!Shown(d, id) = Shown(d, id)
  BY DEF OS!Shown, Shown
<1>2. OS!Misfits(d, id) = Misfits(d, id)
  BY <1>1 DEF OS!Misfits, Misfits, OS!ReadFits, ReadFits
<1>3. ASSUME NEW t PROVE OS!Misread(d, t, id) = Misread(d, t, id)
  BY SameNames, SameReplies, <1>1, Zenon DEF OS!Misread, Misread
<1>4. UNION {OS!Misread(d, t, id) : t \in Misfits(d, id)} = UNION {Misread(d, t, id) : t \in Misfits(d, id)}
  BY <1>3
<1> QED
  BY SameReplies, <1>1, <1>2, <1>4, Zenon DEF OS!FlushResource, FlushResource

(* What a display shows.                                                        *)
LEMMA SameScanout ==
    ASSUME NEW d, NEW s, NEW id, NEW size
    PROVE  OS!SetScanout(d, s, id, size) = SetScanout(d, s, id, size)
<1>1. OS!DisableScanout(d, s) = DisableScanout(d, s)
  <2> DEFINE e == IF d.outs[s].res # None THEN [d EXCEPT !.outs[s].res = None, !.outs[s].surface = FALSE] ELSE d
  <2>1. OS!DisableScanout(d, s) = OS!Done(e)
    BY SameNames DEF OS!DisableScanout
  <2>2. DisableScanout(d, s) = Done(e)
    BY DEF DisableScanout
  <2> HIDE DEF e
  <2> QED
    BY SameReplies, <2>1, <2>2
<1>2. OS!CreateSurface(d, s, size) = CreateSurface(d, s, size)
  <2> DEFINE released == [d EXCEPT !.outs[s].size = size, !.outs[s].surface = FALSE]
             e == [released EXCEPT !.outs[s].surface = TRUE]
             need == NeedSurface(d.outs[s], size)
  <2>1. OS!CreateSurface(d, s, size) = IF ~need THEN OS!Done(d) ELSE OS!Done(e) \union OS!Refused(released)
    BY DEF OS!CreateSurface, OS!NeedSurface, NeedSurface
  <2>2. CreateSurface(d, s, size) = IF ~need THEN Done(d) ELSE Done(e) \union Refused(released)
    BY DEF CreateSurface
  <2> HIDE DEF e, released, need
  <2> QED
    BY SameReplies, <2>1, <2>2
<1>3. ASSUME NEW e PROVE OS!Reply(e, TRUE) = Reply(e, TRUE)
  BY DEF OS!Reply, Reply
<1> DEFINE F(r) == IF r.ok THEN Reply([r.dev EXCEPT !.outs[s].res = id], TRUE) ELSE r
           G(r) == IF r.ok THEN OS!Reply([r.dev EXCEPT !.outs[s].res = id], TRUE) ELSE r
<1>4. ASSUME NEW r PROVE F(r) = G(r)
  BY <1>3, Zenon
<1>5. {G(r) : r \in OS!CreateSurface(d, s, size)} = {F(r) : r \in CreateSurface(d, s, size)}
  <2> HIDE DEF F, G
  <2> QED
    BY <1>2, <1>4
<1> QED
  BY SameNames, SameReplies, <1>1, <1>5, Zenon DEF OS!SetScanout, SetScanout

(* Mapping a blob.                                                              *)
LEMMA SameMap ==
    ASSUME NEW d, NEW id, NEW x
    PROVE  OS!ResourceMapBlob(d, id, x) = ResourceMapBlob(d, id, x)
<1>1. ASSUME NEW e PROVE OS!AddMapping(e, id, x) = AddMapping(e, id, x)
  BY SameReplies, Zenon DEF OS!AddMapping, AddMapping
<1>2. ASSUME NEW h PROVE OS!Exported(h) <=> Exported(h)
  BY DEF OS!Exported, Exported
<1>3. ASSUME NEW e PROVE OS!Reply(e, TRUE) = Reply(e, TRUE)
  BY DEF OS!Reply, Reply
<1> DEFINE src == IF Exported(d.host[id]) THEN d ELSE [d EXCEPT !.res[id].ext = TRUE, !.host[id].mapped = TRUE]
           F(r) == IF r.ok THEN Reply([r.dev EXCEPT !.res[id].offset = x], TRUE) ELSE r
           G(r) == IF r.ok THEN OS!Reply([r.dev EXCEPT !.res[id].offset = x], TRUE) ELSE r
           known == id \in DOMAIN d.res /\ d.host[id].kind # "2d"
<1>4. ASSUME NEW r PROVE F(r) = G(r)
  BY <1>3, Zenon
<1>5. {G(r) : r \in OS!AddMapping(src, id, x)} = {F(r) : r \in AddMapping(src, id, x)}
  <2> HIDE DEF F, G, src
  <2> QED
    BY <1>1, <1>4
<1>6. OS!ResourceMapBlob(d, id, x) =
        IF ~known THEN OS!Refused(d) ELSE {G(r) : r \in OS!AddMapping(src, id, x)} \union OS!Refused(d)
  BY <1>2, Zenon DEF OS!ResourceMapBlob
<1>7. ResourceMapBlob(d, id, x) =
        IF ~known THEN Refused(d) ELSE {F(r) : r \in AddMapping(src, id, x)} \union Refused(d)
  BY Zenon DEF ResourceMapBlob
<1> HIDE DEF src, F, G, known
<1>8. OS!Refused(d) = Refused(d)
  BY SameReplies, Zenon
<1> QED
  BY <1>5, <1>6, <1>7, <1>8

(* Unmapping it.                                                                *)
LEMMA SameUnmap ==
    ASSUME NEW d, NEW id
    PROVE  OS!ResourceUnmapBlob(d, id) = ResourceUnmapBlob(d, id)
<1>1. ASSUME NEW o PROVE OS!RemoveMapping(d, o) = RemoveMapping(d, o)
  <2> DEFINE unlisted == [d EXCEPT !.shm[o].listed = FALSE]
             gone == [unlisted EXCEPT !.shm[o].blob = None]
             gone2 == [unlisted EXCEPT !.shm[o].blob = OS!None]
  <2>1. OS!RemoveMapping(d, o) = IF ~d.shm[o].listed THEN OS!Refused(d)
            ELSE OS!Done(gone2) \union OS!Refused(gone2) \union OS!Refused(unlisted)
    BY Zenon DEF OS!RemoveMapping
  <2>2. RemoveMapping(d, o) = IF ~d.shm[o].listed THEN Refused(d)
            ELSE Done(gone) \union Refused(gone) \union Refused(unlisted)
    BY Zenon DEF RemoveMapping
  <2>3. gone2 = gone
    BY SameNames, Zenon
  <2> HIDE DEF unlisted, gone, gone2
  <2> QED
    BY SameReplies, <2>1, <2>2, <2>3
<1>2. ASSUME NEW e PROVE OS!Forgotten(e, id) = Forgotten(e, id)
  BY SameNames, SameReplies, Zenon DEF OS!Forgotten, Forgotten
<1> DEFINE F(r) == IF r.ok THEN Forgotten(r.dev, id) ELSE {r}
           G(r) == IF r.ok THEN OS!Forgotten(r.dev, id) ELSE {r}
           o == d.res[id].offset
<1>3. ASSUME NEW r PROVE F(r) = G(r)
  BY <1>2, Zenon
<1>4. UNION {G(r) : r \in OS!RemoveMapping(d, o)} = UNION {F(r) : r \in RemoveMapping(d, o)}
  <2> HIDE DEF F, G, o
  <2> QED
    BY <1>1, <1>3
<1> QED
  BY SameNames, SameReplies, <1>4, Zenon DEF OS!ResourceUnmapBlob, ResourceUnmapBlob

(* A new display.                                                               *)
LEMMA SameAdd ==
    ASSUME NEW d
    PROVE  OS!AddDisplay(d) = AddDisplay(d)
<1>1. ASSUME NEW S PROVE OS!Lowest(S) = Lowest(S)
  BY DEF OS!Lowest, Lowest
<1> QED
  BY <1>1, SameNames, SameReplies, Zenon
  DEF OS!AddDisplay, AddDisplay, OS!Put, Put, OS!NewPrimary, NewPrimary

(* Displays that go.                                                            *)
LEMMA SameRemove ==
    ASSUME NEW d, NEW x
    PROVE  OS!RemoveDisplays(d, x) = RemoveDisplays(d, x)
<1>1. OS!Missing(d, x) = Missing(d, x)
  BY DEF OS!Missing, Missing
<1>2. ASSUME NEW n PROVE OS!Without(d, x, n) = Without(d, x, n)
  BY DEF OS!Without, Without
<1>3. OS!Lowest(Missing(d, x)) = Lowest(Missing(d, x))
  BY DEF OS!Lowest, Lowest
<1> QED
  BY SameReplies, <1>1, <1>2, <1>3, Zenon DEF OS!RemoveDisplays, RemoveDisplays

(* A reset.                                                                     *)
LEMMA SameReset ==
    ASSUME NEW d
    PROVE  OS!ResetState(d) = ResetState(d)
  BY SameNames, Zenon DEF OS!ResetState, ResetState

(* A restore.                                                                   *)
LEMMA SameResume ==
    ASSUME NEW d
    PROVE  OS!Reattached(OS!Saved(d)) = Reattached(Saved(d))
<1>1. OS!Saved(d) = Saved(d)
  BY SameNames DEF OS!Saved, Saved
<1>2. ASSUME NEW e PROVE OS!Reattached(e) = Reattached(e)
  BY Zenon DEF OS!Reattached, Reattached
<1> QED
  BY <1>1, <1>2

(* A command of the system's driver whose outcomes are devices in agreement.    *)
LEMMA CommandInv ==
    ASSUME IInv, child = "os", UNCHANGED firmware, NEW outcomes, OS!Command(outcomes),
           \A r \in outcomes : IsDevice(r.dev) /\ Books(r.dev)
    PROVE  IInv'
<1>1. /\ IsDevice(dev') /\ Books(dev') /\ before' = OS!NotResumed
      /\ UNCHANGED <<gop, child, pc, new>>
  BY Zenon DEF OS!Command, firmware
<1>2. Calls'
  BY <1>1, Zenon DEF IInv, Calls
<1>3. BackingSafe' /\ Firmware'
  BY <1>1, Zenon DEF BackingSafe, Firmware
<1>4. RestoreFaithful'
  BY <1>1 DEF RestoreFaithful, OS!RestoreFaithful
<1> QED
  BY <1>1, <1>2, <1>3, <1>4, Zenon DEF IInv

(* A suspend and resume under the system.                                       *)
LEMMA ResumeInv ==
    ASSUME IInv, child = "os", UNCHANGED firmware, OS!Resume
    PROVE  IInv'
<1>1. /\ IsDevice(dev) /\ Books(dev) /\ UNCHANGED <<gop, child, pc, new>>
  BY Zenon DEF firmware, IInv
<1>2. Calls' /\ BackingSafe' /\ Firmware'
  BY <1>1, Zenon DEF IInv, Calls, BackingSafe, Firmware
<1>3. CASE before' = OS!NotResumed /\ dev' = dev
  BY <1>1, <1>2, <1>3, Zenon DEF IInv, RestoreFaithful, OS!RestoreFaithful
<1>4. CASE dev' = OS!Reattached(OS!Saved(dev)) /\ before' = dev
  <2>1. dev' = Reattached(Saved(dev))
    BY <1>4, SameResume, Zenon
  <2>2. /\ IsDevice(dev') /\ Books(dev') /\ dev'.res = dev.res /\ dev'.outs = dev.outs
        /\ DOMAIN dev'.host = DOMAIN dev.host
        /\ \A id \in DOMAIN dev.res : dev'.host[id].backing = dev.res[id].backing
    BY <1>1, <2>1, ResumeIs, Zenon
  <2>3. ASSUME NEW id \in DOMAIN dev.res, dev.host[id].backing # NoStore
        PROVE  dev'.host[id].backing = dev.host[id].backing
    BY <1>1, <2>2, <2>3, Zenon DEF Books
  <2>4. RestoreFaithful'
    BY <1>4, <2>2, <2>3 DEF RestoreFaithful, OS!RestoreFaithful, OS!NoStore, NoStore
  <2> QED
    BY <1>2, <2>2, <2>4, Zenon DEF IInv
<1> QED
  BY <1>3, <1>4 DEF OS!Resume

(* Every step of the system keeps the tables in agreement.                      *)
LEMMA SystemInv ==
    ASSUME IInv, child = "os", UNCHANGED firmware, OS!Next
    PROVE  IInv'
<1>0. /\ IsDevice(dev) /\ Books(dev) /\ OS!Kinds \subseteq HostKinds /\ OS!None = None
      /\ \A id \in Ids : id # None /\ id \in AllIds
      /\ None \in AllIds /\ Sizes \subseteq Nat /\ Stores \subseteq Backing /\ NoStore \in Backing
  BY SystemOK DEF IInv, OS!Kinds, HostKinds, AllIds, Backing, OS!None, None
<1>1. CASE OS!CreateResource
  <2>1. PICK id \in Ids, size \in Sizes, k \in OS!Kinds : OS!Command(Create(dev, id, size, k))
    BY <1>1, SameCreate DEF OS!CreateResource
  <2>2. ASSUME NEW r \in Create(dev, id, size, k) PROVE IsDevice(r.dev) /\ Books(r.dev)
    <3>1. Created(dev, id, size, k, r)
      BY <1>0, CreateIs
    <3> QED
      BY <3>1, Zenon DEF Created
  <2> QED
    BY <2>1, <2>2, CommandInv
<1>2. CASE OS!Attach
  <2>1. PICK id \in Ids, st \in Stores : OS!Command(SetBacking(dev, id, st))
    BY <1>2, SameBacking DEF OS!Attach
  <2>2. ASSUME NEW r \in SetBacking(dev, id, st) PROVE IsDevice(r.dev) /\ Books(r.dev)
    BY <1>0, SetBackingIs, Zenon
  <2> QED
    BY <2>1, <2>2, CommandInv
<1>3. CASE OS!Detach
  <2>1. PICK id \in Ids : OS!Command(SetBacking(dev, id, NoStore))
    BY <1>3, SameBacking DEF OS!Detach
  <2>2. ASSUME NEW r \in SetBacking(dev, id, NoStore) PROVE IsDevice(r.dev) /\ Books(r.dev)
    BY <1>0, SetBackingIs, Zenon
  <2> QED
    BY <2>1, <2>2, CommandInv
<1>4. CASE OS!Unref
  <2>1. PICK id \in Ids : OS!Command(UnrefResource(dev, id))
    BY <1>4, SameUnref DEF OS!Unref
  <2>2. ASSUME NEW r \in UnrefResource(dev, id) PROVE IsDevice(r.dev) /\ Books(r.dev)
    BY <1>0, UnrefIs
  <2> QED
    BY <2>1, <2>2, CommandInv, Zenon
<1>5. CASE OS!Transfer
  <2>1. PICK id \in Ids, inside \in BOOLEAN : OS!Command(TransferWrite(dev, id, inside))
    BY <1>5, SameTransfer DEF OS!Transfer
  <2>2. ASSUME NEW r \in TransferWrite(dev, id, inside) PROVE IsDevice(r.dev) /\ Books(r.dev)
    BY <1>0, TransferIs, Zenon
  <2> QED
    BY <2>1, <2>2, CommandInv
<1>6. CASE OS!Flush
  <2>1. PICK id \in Ids : OS!Command(FlushResource(dev, id))
    BY <1>6, SameFlush DEF OS!Flush
  <2>2. ASSUME NEW r \in FlushResource(dev, id) PROVE IsDevice(r.dev) /\ Books(r.dev)
    BY <1>0, FlushIs, Zenon
  <2> QED
    BY <2>1, <2>2, CommandInv
<1>7. CASE OS!Scanout
  <2>1. PICK s \in Displays, id \in Ids \union {None}, size \in Sizes : OS!Command(SetScanout(dev, s, id, size))
    BY <1>0, <1>7, SameScanout DEF OS!Scanout
  <2>2. ASSUME NEW r \in SetScanout(dev, s, id, size) PROVE IsDevice(r.dev) /\ Books(r.dev)
    <3>1. Scanned(dev, s, id, size, r)
      BY <1>0, SetScanoutIs, Zenon
    <3> QED
      BY <3>1, Zenon DEF Scanned
  <2> QED
    BY <2>1, <2>2, CommandInv, Zenon
<1>8. CASE OS!MapBlob
  <2>1. PICK id \in Ids, o \in Offsets : OS!Command(ResourceMapBlob(dev, id, o))
    BY <1>8, SameMap DEF OS!MapBlob
  <2>2. ASSUME NEW r \in ResourceMapBlob(dev, id, o) PROVE IsDevice(r.dev) /\ Books(r.dev)
    BY <1>0, MapIs, Zenon
  <2> QED
    BY <2>1, <2>2, CommandInv
<1>9. CASE OS!UnmapBlob
  <2>1. PICK id \in Ids : OS!Command(ResourceUnmapBlob(dev, id))
    BY <1>9, SameUnmap DEF OS!UnmapBlob
  <2>2. ASSUME NEW r \in ResourceUnmapBlob(dev, id) PROVE IsDevice(r.dev) /\ Books(r.dev)
    BY <1>0, UnmapIs
  <2> QED
    BY <2>1, <2>2, CommandInv
<1>10. CASE OS!Plug
  <2>1. OS!Command(AddDisplay(dev))
    BY <1>10, SameAdd DEF OS!Plug
  <2>2. ASSUME NEW r \in AddDisplay(dev) PROVE IsDevice(r.dev) /\ Books(r.dev)
    BY <1>0, AddDisplayIs
  <2> QED
    BY <2>1, <2>2, CommandInv, Zenon
<1>11. CASE OS!Unplug
  <2>1. PICK ids : OS!Command(RemoveDisplays(dev, ids))
    BY <1>11, SameRemove DEF OS!Unplug
  <2>2. ASSUME NEW r \in RemoveDisplays(dev, ids) PROVE IsDevice(r.dev) /\ Books(r.dev)
    BY <1>0, RemoveDisplaysIs
  <2> QED
    BY <2>1, <2>2, CommandInv
<1>12. CASE OS!ReadEvent
  <2> DEFINE e == [dev EXCEPT !.event = FALSE]
  <2>1. OS!Command(Done(e))
    BY <1>12, SameReplies DEF OS!ReadEvent
  <2>2. e = [dev EXCEPT !.outs = dev.outs, !.event = FALSE]
    BY <1>0, Zenon DEF IsDevice
  <2>3. dev.outs \in [DOMAIN dev.outs -> Output]
    BY <1>0 DEF IsDevice
  <2> HIDE DEF e
  <2>4. IsDevice(e) /\ Books(e)
    BY <1>0, <2>2, <2>3, OutsChange, Zenon
  <2>5. ASSUME NEW r \in Done(e) PROVE IsDevice(r.dev) /\ Books(r.dev)
    BY <2>4, DoneIs, Zenon
  <2> QED
    BY <2>1, <2>5, CommandInv
<1>13. CASE OS!Reset
  <2>1. OS!Command(Done(ResetState(dev)))
    BY <1>13, SameReplies, SameReset DEF OS!Reset
  <2>2. ASSUME NEW r \in Done(ResetState(dev)) PROVE IsDevice(r.dev) /\ Books(r.dev)
    BY <1>0, DoneIs, ResetIs, Zenon
  <2> QED
    BY <2>1, <2>2, CommandInv, Zenon
<1>14. CASE OS!Resume
  BY <1>14, ResumeInv
<1> QED
  BY <1>1, <1>2, <1>3, <1>4, <1>5, <1>6, <1>7, <1>8, <1>9, <1>10, <1>11, <1>12, <1>13, <1>14, SMTT(30) DEF OS!Next

-------------------------------------------------------------------------------
(* At power-on there is no resource and no store.                               *)
LEMMA InitInv ==
    ASSUME StackInit
    PROVE  IInv
<1>1. /\ dev = NewDevice /\ before = OS!NotResumed /\ pages = {} /\ gop = NoGop /\ new = NoGop
      /\ pc = "idle" /\ child \in {"os", "none"}
  <2>1. OS!NewDevice = NewDevice
    BY Zenon DEF OS!NewDevice, NewDevice, OS!EmptyMap, EmptyMap, OS!NewPrimary, NewPrimary, OS!None, None,
       OS!NoMapping, NoMapping
  <2> QED
    BY <2>1, Zenon DEF StackInit, OS!Init
<1>2. /\ dev.res = EmptyMap /\ dev.host = EmptyMap /\ dev.shm = [o \in Offsets |-> NoMapping]
      /\ dev.outs = [s \in FirstDisplays |-> NewPrimary(NativeSize)] /\ dev.event = FALSE
      /\ dev = [res |-> dev.res, host |-> dev.host, outs |-> dev.outs, shm |-> dev.shm, event |-> dev.event]
  BY <1>1 DEF NewDevice
<1>3. DOMAIN EmptyMap = {} /\ EmptyMap \in [{} -> Resource] /\ EmptyMap \in [{} -> Host]
  BY DEF EmptyMap
<1>4. NewPrimary(NativeSize) \in Output
  BY DisplaysOK DEF NewPrimary, Output, AllIds
<1>5. IsDevice(dev)
  <2>1. NoMapping \in Mapping
    BY DEF NoMapping, Mapping, AllIds
  <2> QED
    BY <1>2, <1>3, <1>4, <2>1, Zenon DEF IsDevice, AllIds
<1>6. Books(dev)
  BY <1>2, <1>3, Zenon DEF Books
<1>7. NoGop \in [id : {None, 1, 2}, store : Backing, size : Nat] /\ NoGop.id = None
  BY Zenon DEF NoGop, Backing
<1>8. Calls
  BY <1>1, <1>7, Zenon DEF Calls, Old, Making
<1>9. ~NewLive /\ ~NewStored /\ ~GopLive /\ ~GopStored
  BY <1>1, <1>7, Zenon DEF NewLive, NewStored, GopLive, GopStored, Making, Old
<1>10. Lives
  BY <1>1, <1>9, Zenon DEF Lives, Old, Making
<1>11. Tables
  BY <1>1, <1>2, <1>3, <1>9, Zenon DEF Tables
<1>12. Shows /\ Committing
  BY <1>1 DEF Shows, Committing
<1>13. Firmware
  BY <1>10, <1>11, <1>12 DEF Firmware
<1>14. BackingSafe
  BY <1>8, <1>10, <1>11, SafeIs, Zenon
<1>15. RestoreFaithful
  BY <1>1, Zenon DEF RestoreFaithful, OS!RestoreFaithful
<1> QED
  BY <1>5, <1>6, <1>8, <1>13, <1>14, <1>15, Zenon DEF IInv

(* Nothing changes.                                                             *)
LEMMA StutterInv ==
    ASSUME IInv, UNCHANGED stackVars
    PROVE  IInv'
<1>1. UNCHANGED <<dev, pages, gop, child, pc, new, dark, infos, up, before, blobs>>
  BY DEF stackVars, vars, system
<1>2. IsDevice(dev') /\ Books(dev')
  BY <1>1 DEF IInv
<1>3. Calls' /\ BackingSafe' /\ RestoreFaithful'
  BY <1>1, Zenon DEF IInv, Calls, BackingSafe, RestoreFaithful, OS!RestoreFaithful
<1>4. Firmware'
  BY <1>1, Zenon DEF IInv, Firmware, Lives, Tables, Shows, Committing, Screen, Lit, Current, Flipped, NewLive, NewStored,
     NewBacked, GopLive, GopStored, GopBacked
<1> QED
  BY <1>2, <1>3, <1>4, Zenon DEF IInv

(* Every step of the stack keeps the invariant.                                 *)
LEMMA NextInv ==
    ASSUME IInv, [StackNext]_stackVars
    PROVE  IInv'
<1>1. CASE Next /\ UNCHANGED system
  <2>1. CASE InitVgpuGop
    <3>1. Modes[0] \in Nat
      BY ModesOK, Zenon
    <3> QED
      BY <1>1, <2>1, <3>1, EnterInv, Zenon DEF InitVgpuGop
  <2>2. CASE SetMode
    <3>1. PICK n \in DOMAIN Modes : Enter(Modes[n])
      BY <2>2 DEF SetMode
    <3>2. Modes[n] \in Nat
      BY ModesOK
    <3>3. pc = "idle" /\ child = "up" /\ child' = "up"
      BY <2>2 DEF SetMode
    <3> QED
      BY <1>1, <3>1, <3>2, <3>3, EnterInv
  <2> QED
    BY <1>1, <2>1, <2>2, CreateStepInv, AllocStepInv, AttachStepInv, ScanoutStepInv, FlushStepInv,
       FlipBackStepInv, HeadStepInv, OldDetachStepInv, OldFreeStepInv, OldUnrefStepInv, CommitStepInv,
       DetachStepInv, FreeStepInv, UnrefStepInv, UninitVgpuGopInv, BltInv, ExitBootInv, Zenon DEF Next
<1>2. CASE child = "os" /\ OS!Next /\ UNCHANGED firmware
  BY <1>2, SystemInv
<1>3. CASE UNCHANGED stackVars
  BY <1>3, StutterInv
<1> QED
  BY <1>1, <1>2, <1>3, Zenon DEF StackNext

(* The invariant holds throughout.                                              *)
LEMMA Invariant == StackSpec => []IInv
  BY InitInv, NextInv, PTL DEF StackSpec

(* The host reads only memory the firmware's driver still owns, and a driver    *)
(* that stopped, or failed to start, leaves nothing behind: every step of       *)
(* GopSetMode, ReleaseGopResources and GopBlt, with every failure of the host.  *)
THEOREM HostReadsOwnedMemory == StackSpec => []BackingSafe
<1>1. IInv => BackingSafe
  BY Zenon DEF IInv
<1> QED
  BY <1>1, Invariant, PTL

(* Between the calls of GopSetMode, GopBlt and UninitVgpuGop the driver and the *)
(* host agree on the resource, its size, its store and the head, for any modes; *)
(* the display has a surface of that size, unless it refused the surface of a   *)
(* mode change that GopSetMode then gave up.                                    *)
THEOREM ModesStayConsistent == StackSpec => []ModeConsistent
<1>1. IInv => ModeConsistent
  <2>1. SUFFICES ASSUME IInv, pc = "idle", child = "up"
                 PROVE  /\ DOMAIN dev.res = {gop.id} /\ DOMAIN dev.host = {gop.id}
                        /\ dev.host[gop.id].size = gop.size
                        /\ dev.host[gop.id].backing = gop.store /\ pages = {gop.store}
                        /\ Screen.res = gop.id
                        /\ Screen.surface => Screen.size = gop.size
                        /\ ~Screen.surface => dark
    BY DEF ModeConsistent
  <2>2. Lives /\ Tables /\ Shows
    BY <2>1, Zenon DEF IInv, Firmware
  <2>3. ~NewLive /\ ~NewStored /\ GopLive /\ GopStored /\ GopBacked
    BY <2>1, <2>2 DEF NewLive, NewStored, GopLive, GopStored, GopBacked, Lives, Making, Old
  <2>4. Current = gop
    BY <2>1 DEF Current, Flipped, Old
  <2>5. Screen.res = gop.id /\ Lit(gop.size)
    BY <2>1, <2>2, <2>4, Zenon DEF Shows
  <2> QED
    BY <2>1, <2>2, <2>3, <2>5, Zenon DEF Tables, Holds, Lit
<1> QED
  BY <1>1, Invariant, PTL

(* The tables of the frontend, the renderer and the hypervisor agree after any  *)
(* commands of the firmware's driver and of the system's, their failures and    *)
(* the reset between the two: a blob the renderer kept is one it had mapped,    *)
(* and a listed place of the bar holds the resource that says it is there,      *)
(* unless two said so.                                                          *)
THEOREM TablesAgree == StackSpec => []BooksAgree
<1>1. IInv => BooksAgree
  BY DEF IInv, Books, Placed, BooksAgree, OS!BooksAgree, OS!None, None, OS!NoStore, NoStore
<1> QED
  BY <1>1, Invariant, PTL

(* A resumed device has the resources the snapshot was taken of, with the       *)
(* memory behind them, on the displays they were on.                            *)
THEOREM ResumeRestores == StackSpec => []RestoreFaithful
<1>1. IInv => RestoreFaithful
  BY DEF IInv
<1> QED
  BY <1>1, Invariant, PTL
===============================================================================
