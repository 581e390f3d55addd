---------------------------- MODULE DmaPoolProof ----------------------------
(***************************************************************************)
(* Proofs about DmaPool, for every pool size, every set of task priority   *)
(* levels and every request size: without a lock, the allocator keeps what *)
(* it promises until a callback keeps pages, or frees those of another     *)
(* level, inside a call it has interrupted.                                *)
(***************************************************************************)
EXTENDS DmaPool, TLAPS

(* Every operand of the arithmetic below is a number.                      *)
LEMMA PagesAreNumbers == Pages \subseteq Nat /\ Tpls \subseteq Nat /\ TotalPages \in Nat
  BY PoolAssumption, TplAssumption DEF Pages

(* A request looks for at least one page.                                  *)
LEMMA NeededPositive ==
  ASSUME NEW n \in Nat
  PROVE  Needed(n) \in Nat /\ Needed(n) >= 1 /\ Needed(n) >= n
  BY DEF Needed

(* While a level has the processor, the levels above it own nothing: the   *)
(* bitmap shows exactly what this level and the ones below it own.         *)
LEMMA RunningSeesItsOwn ==
  ASSUME NestingInv, NEW l \in Tpls, Running(l)
  PROVE  /\ \A m \in Tpls : m > l => pc[m] = "idle" /\ held[m] = {} /\ Owned(m) = {}
         /\ \A p \in Pages : p \in bitmap <=> OwnedUpTo(l, p)
<1>1. ASSUME NEW m \in Tpls, m > l
      PROVE  pc[m] = "idle" /\ held[m] = {} /\ Owned(m) = {}
  <2>1. m \notin active
    BY <1>1, PagesAreNumbers DEF Running
  <2>2. pc[m] = "idle" /\ held[m] = {}
    BY <2>1 DEF NestingInv, StackOK
  <2>. QED  BY <2>2 DEF Owned, HeldPages, InFlight
<1>2. ASSUME NEW p \in Pages
      PROVE  p \in bitmap <=> OwnedUpTo(l, p)
  <2>1. p \in bitmap <=> \E m \in Tpls : p \in Owned(m)
    BY DEF NestingInv, BitSetMeansAllocated
  <2>2. \A m \in Tpls : p \in Owned(m) => m <= l
    BY <1>1, PagesAreNumbers
  <2>. QED  BY <2>1, <2>2 DEF OwnedUpTo
<1>. QED  BY <1>1, <1>2

(* No call is in progress and no page is allocated when DmaPoolInit has    *)
(* cleared the bitmap: the nesting invariant holds at the start.           *)
THEOREM InitNesting == Init => NestingInv
<1>. SUFFICES ASSUME Init PROVE NestingInv
  OBVIOUS
<1>1. TypeOK
  <2>1. overtaken \in BOOLEAN
    BY Zenon DEF Init
  <2>. QED  BY <2>1, PoolAssumption, TplAssumption DEF Init, TypeOK, Locations
<1>2. \A l \in Tpls : pc[l] = "idle" /\ held[l] = {}
  BY DEF Init
<1>3. \A l \in Tpls : Owned(l) = {} /\ Claim(l) = {} /\ InFlight(l) = {}
  BY <1>2 DEF Owned, HeldPages, InFlight, Claim
<1>4. StackOK /\ LevelsApart /\ BitSetMeansAllocated
  BY <1>2, <1>3 DEF Init, StackOK, LevelsApart, BitSetMeansAllocated
<1>5. \A l \in Tpls : LevelOK(l)
  BY <1>2, <1>3 DEF LevelOK, FrameOK, HeldOK, ClaimFree, RegisterCurrent, ScanComplete
<1>. QED  BY <1>1, <1>4, <1>5 DEF NestingInv

-----------------------------------------------------------------------------
(* The step leaves the call and the allocations of level m alone.          *)
SameFrame(m) ==
    /\ pc'[m] = pc[m]
    /\ NumPages'[m] = NumPages[m]
    /\ RunStart'[m] = RunStart[m]
    /\ RunLen'[m] = RunLen[m]
    /\ i'[m] = i[m]
    /\ byte'[m] = byte[m]
    /\ held'[m] = held[m]

(* A level the step leaves alone owns and claims what it did.              *)
LEMMA SameFrameSameOwned ==
  ASSUME NEW m \in Tpls, SameFrame(m)
  PROVE  /\ Owned(m)' = Owned(m)
         /\ InFlight(m)' = InFlight(m)
         /\ Claim(m)' = Claim(m)
  BY DEF SameFrame, Owned, HeldPages, InFlight, Claim

(* A level the step leaves alone stays in order when the levels below it   *)
(* own what they did.                                                      *)
LEMMA LevelKept ==
  ASSUME NEW m \in Tpls, LevelOK(m), SameFrame(m),
         \A k \in Tpls : k <= m => Owned(k)' = Owned(k)
  PROVE  LevelOK(m)'
<1>1. InFlight(m)' = InFlight(m) /\ Claim(m)' = Claim(m)
  BY SameFrameSameOwned
<1>2. \A p : OwnedUpTo(m, p)' <=> OwnedUpTo(m, p)
  BY DEF OwnedUpTo
<1>3. FrameOK(m)'
  BY DEF LevelOK, FrameOK, SameFrame
<1>4. HeldOK(m)'
  BY <1>1 DEF LevelOK, HeldOK, SameFrame
<1>5. ClaimFree(m)'
  BY <1>1 DEF LevelOK, ClaimFree
<1>6. RegisterCurrent(m)'
  BY <1>2 DEF LevelOK, RegisterCurrent, SameFrame
<1>7. ScanComplete(m)'
  BY <1>2 DEF LevelOK, ScanComplete, SameFrame
<1>. QED  BY <1>3, <1>4, <1>5, <1>6, <1>7 DEF LevelOK

(* A level that is in no call and owns nothing is in order.                *)
LEMMA IdleLevelOK ==
  ASSUME NEW m \in Tpls, pc'[m] = "idle", held'[m] = {}
  PROVE  LevelOK(m)'
  BY DEF LevelOK, FrameOK, HeldOK, ClaimFree, Claim, RegisterCurrent, ScanComplete

(* A step that changes no ownership keeps the invariant when it leaves its *)
(* own level in order.                                                     *)
LEMMA QuietStep ==
  ASSUME NestingInv, NEW l \in Tpls,
         TypeOK', StackOK', bitmap' = bitmap,
         \A m \in Tpls : m # l => SameFrame(m),
         Owned(l)' = Owned(l),
         LevelOK(l)'
  PROVE  NestingInv'
<1>1. \A m \in Tpls : Owned(m)' = Owned(m)
  BY SameFrameSameOwned
<1>2. \A m \in Tpls : LevelOK(m)'
  BY <1>1, LevelKept DEF NestingInv
<1>3. LevelsApart'
  BY <1>1 DEF NestingInv, LevelsApart
<1>4. BitSetMeansAllocated'
  BY <1>1 DEF NestingInv, BitSetMeansAllocated
<1>. QED  BY <1>2, <1>3, <1>4 DEF NestingInv

(* A store into the bitmap keeps the invariant when it changes the bit and *)
(* the ownership of one page of the running level alike.                   *)
LEMMA StoreStep ==
  ASSUME NestingInv, NEW l \in Tpls, Running(l),
         TypeOK', StackOK',
         \A m \in Tpls : m # l => SameFrame(m),
         \A m \in Tpls : m < l => \A p \in Owned(l)' : p \notin Owned(m),
         \A p \in Pages : p \in bitmap' <=>
             \/ p \in Owned(l)'
             \/ \E m \in Tpls : m # l /\ p \in Owned(m),
         LevelOK(l)'
  PROVE  NestingInv'
<1>1. \A m \in Tpls : m # l => Owned(m)' = Owned(m)
  BY SameFrameSameOwned
<1>2. \A m \in Tpls : m > l => pc[m] = "idle" /\ held[m] = {} /\ Owned(m) = {}
  BY RunningSeesItsOwn
<1>3. ASSUME NEW m \in Tpls PROVE LevelOK(m)'
  <2>1. CASE m = l
    BY <2>1
  <2>2. CASE m < l
    <3>1. \A k \in Tpls : k <= m => Owned(k)' = Owned(k)
      BY <2>2, <1>1, PagesAreNumbers
    <3>. QED  BY <3>1, <2>2, LevelKept, PagesAreNumbers DEF NestingInv
  <2>3. CASE m > l
    <3>1. pc'[m] = "idle" /\ held'[m] = {}
      BY <2>3, <1>2, PagesAreNumbers DEF SameFrame
    <3>. QED  BY <3>1, IdleLevelOK
  <2>. QED  BY <2>1, <2>2, <2>3, PagesAreNumbers
<1>4. LevelsApart'
  <2>1. \A m \in Tpls : m # l => \A p \in Owned(l)' : p \notin Owned(m)
    BY <1>2, PagesAreNumbers
  <2>. QED  BY <2>1, <1>1 DEF NestingInv, LevelsApart
<1>5. BitSetMeansAllocated'
  BY <1>1 DEF BitSetMeansAllocated
<1>. QED  BY <1>3, <1>4, <1>5 DEF NestingInv

-----------------------------------------------------------------------------
(* A callback starts: the code below it stays where it is.                 *)
LEMMA PreemptStep ==
  ASSUME NestingInv, NEW l \in Tpls, Preempt(l)
  PROVE  NestingInv'
<1>1. \A m \in Tpls : SameFrame(m) /\ Owned(m)' = Owned(m)
  BY SameFrameSameOwned DEF Preempt, SameFrame
<1>2. TypeOK' /\ StackOK' /\ bitmap' = bitmap
  BY DEF NestingInv, TypeOK, StackOK, Preempt
<1>3. LevelOK(l)'
  BY <1>1, LevelKept DEF NestingInv
<1>. QED  BY <1>1, <1>2, <1>3, QuietStep

(* Code that has interrupted no call finds no call in progress.            *)
LEMMA NobodyInCall ==
  ASSUME NestingInv, NEW l \in Tpls, Running(l), pc[l] = "idle", ~InsideCall(l)
  PROVE  \A m \in Tpls : pc[m] = "idle" /\ InFlight(m) = {} /\ Owned(m) = HeldPages(m)
<1>. SUFFICES ASSUME NEW m \in Tpls PROVE pc[m] = "idle"
  BY DEF Owned, InFlight
<1>1. CASE m \notin active
  BY <1>1 DEF NestingInv, StackOK
<1>2. CASE m \in active
  BY <1>2, PagesAreNumbers DEF InsideCall, Running
<1>. QED  BY <1>1, <1>2

(* A level that is in no call is in order when what it holds is.           *)
LEMMA IdleHolderOK ==
  ASSUME NEW m \in Tpls, pc'[m] = "idle",
         \A a \in held'[m] :
            /\ a.start + a.num <= TotalPages
            /\ \A b \in held'[m] : a # b => \A p \in PagesOf(a) : p \notin PagesOf(b)
  PROVE  LevelOK(m)' /\ Owned(m)' = HeldPages(m)'
<1>1. InFlight(m)' = {} /\ Claim(m)' = {}
  BY DEF InFlight, Claim
<1>2. HeldOK(m)'
  BY <1>1 DEF HeldOK
<1>. QED  BY <1>1, <1>2 DEF LevelOK, FrameOK, ClaimFree, RegisterCurrent, ScanComplete, Owned

(* A callback returns.  What it keeps passes to its driver, which disturbs *)
(* nobody when it has interrupted no call.                                 *)
LEMMA ReturnStep ==
  ASSUME NestingInv, ~overtaken', NEW l \in Tpls, Return(l)
  PROVE  NestingInv'
<1>1. TypeOK' /\ bitmap' = bitmap /\ pc' = pc /\ BaseTpl \in Tpls /\ BaseTpl # l
  BY TplAssumption DEF NestingInv, TypeOK, Return
<1>2. /\ held'[l] = {}
      /\ held'[BaseTpl] = held[BaseTpl] \cup held[l]
      /\ \A m \in Tpls : m # l /\ m # BaseTpl => held'[m] = held[m]
  BY <1>1 DEF NestingInv, TypeOK, Return
<1>3. StackOK'
  BY Zenon, <1>1, <1>2 DEF NestingInv, StackOK, Return
<1>4. CASE held[l] = {}
  <2>1. \A m \in Tpls : held'[m] = held[m]
    BY <1>2, <1>4
  <2>2. \A m \in Tpls : SameFrame(m) /\ Owned(m)' = Owned(m)
    BY Zenon, <2>1, SameFrameSameOwned DEF Return, SameFrame
  <2>3. LevelOK(l)'
    BY <2>2, LevelKept DEF NestingInv
  <2>. QED  BY <1>1, <1>3, <2>2, <2>3, QuietStep
<1>5. CASE held[l] # {}
  <2>1. Running(l) /\ pc[l] = "idle" /\ ~InsideCall(l)
    BY Zenon, <1>5 DEF Return
  <2>2. \A m \in Tpls : pc'[m] = "idle" /\ pc[m] = "idle" /\ Owned(m) = HeldPages(m)
    BY <1>1, <2>1, NobodyInCall
  <2>3. \A m \in Tpls : HeldOK(m)
    BY DEF NestingInv, LevelOK
  <2>4. \A m, k \in Tpls : m # k => \A p \in HeldPages(m) : p \notin HeldPages(k)
    BY <2>2 DEF NestingInv, LevelsApart
  <2>5. \A a \in held[BaseTpl], b \in held[l] : \A p \in PagesOf(a) : p \notin PagesOf(b)
    BY <1>1, <2>4 DEF HeldPages
  <2>6. ASSUME NEW m \in Tpls
        PROVE  \A a \in held'[m] :
                  /\ a.start + a.num <= TotalPages
                  /\ \A b \in held'[m] : a # b => \A p \in PagesOf(a) : p \notin PagesOf(b)
    <3>1. CASE m = BaseTpl
      BY <3>1, <1>1, <1>2, <2>3, <2>5 DEF HeldOK
    <3>2. CASE m # BaseTpl
      BY <3>2, <1>2, <2>3 DEF HeldOK
    <3>. QED  BY <3>1, <3>2
  <2>7. \A m \in Tpls : LevelOK(m)' /\ Owned(m)' = HeldPages(m)'
    BY <2>2, <2>6, IdleHolderOK
  <2>8. /\ HeldPages(l)' = {}
        /\ HeldPages(BaseTpl)' = HeldPages(BaseTpl) \cup HeldPages(l)
        /\ \A m \in Tpls : m # l /\ m # BaseTpl => HeldPages(m)' = HeldPages(m)
    BY <1>2 DEF HeldPages
  <2>9. LevelsApart'
    BY <1>1, <2>4, <2>7, <2>8 DEF LevelsApart
  <2>10. BitSetMeansAllocated'
    BY <1>1, <2>2, <2>7, <2>8 DEF NestingInv, BitSetMeansAllocated
  <2>. QED  BY <1>1, <1>3, <2>7, <2>9, <2>10 DEF NestingInv
<1>. QED  BY <1>4, <1>5

(* A scan starts with nothing found and nothing claimed.                   *)
LEMMA AllocateCallStep ==
  ASSUME NestingInv, NEW l \in Tpls, NEW n \in Nat, AllocateCall(l, n)
  PROVE  NestingInv'
<1>. USE DEF AllocateCall
<1>1. \A m \in Tpls : m # l => SameFrame(m)
  BY DEF NestingInv, TypeOK, SameFrame
<1>2. TypeOK'
  BY PoolAssumption DEF NestingInv, TypeOK, Locations
<1>3. StackOK' /\ bitmap' = bitmap
  BY DEF NestingInv, TypeOK, StackOK, Running
<1>4. /\ pc'[l] = "scan" /\ NumPages'[l] = n /\ RunStart'[l] = 0
      /\ RunLen'[l] = 0 /\ i'[l] = 0 /\ held'[l] = held[l] /\ pc[l] = "idle"
  BY DEF NestingInv, TypeOK
<1>5. InFlight(l)' = InFlight(l) /\ Owned(l)' = Owned(l) /\ Claim(l)' = {}
  BY <1>4, PoolAssumption DEF InFlight, Owned, HeldPages, Claim, Pages
<1>6. FrameOK(l)'
  BY <1>4 DEF FrameOK, Needed
<1>7. HeldOK(l)'
  BY <1>4, <1>5 DEF HeldOK, LevelOK, NestingInv
<1>8. ClaimFree(l)' /\ RegisterCurrent(l)'
  BY <1>4, <1>5 DEF ClaimFree, RegisterCurrent
<1>9. ScanComplete(l)'
  BY <1>4, PoolAssumption DEF ScanComplete, Needed, Pages
<1>. QED  BY <1>1, <1>2, <1>3, <1>5, <1>6, <1>7, <1>8, <1>9, QuietStep DEF LevelOK

(* The scan passes a set bit: that page ends every run that reached it.    *)
LEMMA ScanAllocatedStep ==
  ASSUME NestingInv, NEW l \in Tpls, ScanAllocated(l)
  PROVE  NestingInv'
<1>1. \A m \in Tpls : m # l => SameFrame(m)
  BY DEF NestingInv, TypeOK, SameFrame, ScanAllocated
<1>2. TypeOK'
  BY PoolAssumption DEF NestingInv, TypeOK, Locations, ScanAllocated
<1>3. StackOK' /\ bitmap' = bitmap
  BY DEF NestingInv, TypeOK, StackOK, Running, ScanAllocated
<1>4. /\ pc'[l] = "scan" /\ pc[l] = "scan" /\ NumPages'[l] = NumPages[l]
      /\ RunStart'[l] = i[l] + 1 /\ RunLen'[l] = 0 /\ i'[l] = i[l] + 1
      /\ held'[l] = held[l] /\ i[l] \in Pages /\ i[l] \in bitmap
      /\ NumPages[l] \in Nat /\ i[l] \in Nat /\ Running(l)
  BY PoolAssumption DEF NestingInv, TypeOK, Pages, ScanAllocated
<1>5. InFlight(l)' = InFlight(l) /\ Owned(l)' = Owned(l) /\ Claim(l)' = {}
  BY <1>4, PoolAssumption DEF InFlight, Owned, HeldPages, Claim, Pages
<1>6. FrameOK(l)'
  BY <1>4, NeededPositive DEF FrameOK
<1>7. HeldOK(l)'
  BY <1>4, <1>5 DEF HeldOK, LevelOK, NestingInv
<1>8. ClaimFree(l)' /\ RegisterCurrent(l)'
  BY <1>4, <1>5 DEF ClaimFree, RegisterCurrent
<1>9. ScanComplete(l)'
  <2>1. \A p : OwnedUpTo(l, p)' <=> OwnedUpTo(l, p)
    BY <1>1, <1>5, SameFrameSameOwned DEF OwnedUpTo
  <2>2. OwnedUpTo(l, i[l])
    BY <1>4, RunningSeesItsOwn
  <2>3. ScanComplete(l)
    BY DEF NestingInv, LevelOK
  <2>4. Needed(NumPages[l]) \in Nat /\ Needed(NumPages[l]) >= 1
    BY <1>4, NeededPositive
  <2>5. ASSUME NEW s \in Pages, s + Needed(NumPages[l]) <= i[l] + 1
        PROVE  \E p \in Run(s, Needed(NumPages[l])) : OwnedUpTo(l, p)
    <3>. s \in Nat
      BY PagesAreNumbers
    <3>1. CASE s + Needed(NumPages[l]) <= i[l]
      BY <3>1, <2>3, <1>4 DEF ScanComplete
    <3>2. CASE s + Needed(NumPages[l]) = i[l] + 1
      <4>1. i[l] \in Run(s, Needed(NumPages[l]))
        BY <3>2, <1>4, <2>4 DEF Run
      <4>. QED  BY <4>1, <2>2
    <3>. QED  BY <2>5, <3>1, <3>2, <1>4, <2>4
  <2>6. i[l] + 1 - 1 = i[l]
    BY <1>4
  <2>. QED  BY <1>4, <2>1, <2>2, <2>5, <2>6 DEF ScanComplete
<1>. QED  BY <1>1, <1>2, <1>3, <1>5, <1>6, <1>7, <1>8, <1>9, QuietStep DEF LevelOK

(* The scan passes a clear bit: nobody up to this level owns the page, so  *)
(* the claim may grow by it, and a run that is long enough is free.        *)
LEMMA ScanFreeStep ==
  ASSUME NestingInv, NEW l \in Tpls, ScanFree(l)
  PROVE  NestingInv'
<1>1. \A m \in Tpls : m # l => SameFrame(m)
  BY DEF NestingInv, TypeOK, SameFrame, ScanFree
<1>2. /\ pc[l] = "scan" /\ NumPages'[l] = NumPages[l] /\ RunStart'[l] = RunStart[l]
      /\ RunLen'[l] = RunLen[l] + 1 /\ held'[l] = held[l] /\ Running(l)
      /\ NumPages[l] \in Nat /\ i[l] \in Nat /\ RunStart[l] \in Nat /\ RunLen[l] \in Nat
      /\ i[l] \in Pages /\ i[l] \notin bitmap /\ i[l] < TotalPages
  BY PoolAssumption DEF NestingInv, TypeOK, Pages, ScanFree
<1>3. /\ RunStart[l] <= i[l] /\ RunLen[l] = i[l] - RunStart[l]
      /\ RunLen[l] < Needed(NumPages[l])
  BY <1>2 DEF NestingInv, LevelOK, FrameOK
<1>4. TypeOK'
  BY <1>2, <1>3, PoolAssumption DEF NestingInv, TypeOK, Locations, ScanFree
<1>5. StackOK' /\ bitmap' = bitmap
  BY DEF NestingInv, TypeOK, StackOK, Running, ScanFree
<1>6. \/ /\ RunLen[l] + 1 >= NumPages[l]
         /\ pc'[l] = "set" /\ i'[l] = RunStart[l]
      \/ /\ RunLen[l] + 1 < NumPages[l]
         /\ pc'[l] = "scan" /\ i'[l] = i[l] + 1
  BY <1>2 DEF NestingInv, TypeOK, ScanFree
<1>7. InFlight(l)' = {} /\ InFlight(l) = {} /\ Owned(l)' = Owned(l)
  <2>1. InFlight(l) = {}
    BY <1>2 DEF InFlight
  <2>2. InFlight(l)' = {}
    BY <1>2, <1>6, PoolAssumption DEF InFlight, Pages
  <2>. QED  BY <1>2, <2>1, <2>2 DEF Owned, HeldPages
<1>8. FrameOK(l)'
  BY <1>2, <1>3, <1>6, NeededPositive, PagesAreNumbers DEF FrameOK
<1>9. HeldOK(l)'
  BY <1>2, <1>7 DEF HeldOK, LevelOK, NestingInv
<1>10. ClaimFree(l)'
  <2>1. ASSUME NEW p \in Claim(l)'
        PROVE  p \in Claim(l) \/ p = i[l]
    <3>1. /\ p \in Pages /\ p \in Nat
          /\ \/ pc'[l] = "scan" /\ RunStart'[l] <= p /\ p < i'[l]
             \/ pc'[l] \in {"set", "setStore"} /\ i'[l] <= p /\ p < RunStart'[l] + NumPages'[l]
      BY PagesAreNumbers DEF Claim, Pages
    <3>2. RunStart[l] <= p /\ p <= i[l]
      BY <3>1, <1>2, <1>3, <1>6
    <3>. QED  BY <3>1, <3>2, <1>2 DEF Claim
  <2>2. \A m \in Tpls : m <= l => i[l] \notin Owned(m)
    BY <1>2, RunningSeesItsOwn DEF OwnedUpTo
  <2>3. \A m \in Tpls : Owned(m)' = Owned(m)
    BY <1>1, <1>7, SameFrameSameOwned
  <2>. QED  BY <2>1, <2>2, <2>3 DEF ClaimFree, LevelOK, NestingInv
<1>11. RegisterCurrent(l)'
  BY <1>6 DEF RegisterCurrent
<1>12. ScanComplete(l)'
  <2>. SUFFICES ASSUME RunLen[l] + 1 < NumPages[l], i'[l] = i[l] + 1
                PROVE  ScanComplete(l)'
    BY <1>6 DEF ScanComplete
  <2>1. \A p : OwnedUpTo(l, p)' <=> OwnedUpTo(l, p)
    BY <1>1, <1>7, SameFrameSameOwned DEF OwnedUpTo
  <2>2. ScanComplete(l)
    BY DEF NestingInv, LevelOK
  <2>3. Needed(NumPages[l]) \in Nat /\ Needed(NumPages[l]) >= NumPages[l]
    BY <1>2, NeededPositive
  <2>4. ASSUME NEW s \in Pages, s + Needed(NumPages[l]) <= i[l] + 1
        PROVE  \E p \in Run(s, Needed(NumPages[l])) : OwnedUpTo(l, p)
    <3>. s \in Nat
      BY PagesAreNumbers
    <3>1. CASE s + Needed(NumPages[l]) <= i[l]
      BY <3>1, <2>2, <1>2 DEF ScanComplete
    <3>2. CASE s + Needed(NumPages[l]) = i[l] + 1
      <4>1. s <= RunStart[l] - 1 /\ RunStart[l] > 0
        BY <3>2, <2>3, <1>2, <1>3
      <4>2. RunStart[l] - 1 \in Run(s, Needed(NumPages[l]))
        BY <4>1, <3>2, <1>2, <1>3, <2>3 DEF Run
      <4>3. OwnedUpTo(l, RunStart[l] - 1)
        BY <4>1, <2>2, <1>2 DEF ScanComplete
      <4>. QED  BY <4>2, <4>3
    <3>. QED  BY <2>4, <3>1, <3>2, <1>2, <2>3
  <2>. QED  BY <1>2, <2>1, <2>2, <2>4 DEF ScanComplete
<1>. QED  BY <1>1, <1>4, <1>5, <1>7, <1>8, <1>9, <1>10, <1>11, <1>12, QuietStep DEF LevelOK

(* A call that is over leaves its level in order when all the level owns   *)
(* is what its callers hold.                                               *)
LEMMA LeftCallOK ==
  ASSUME NEW l \in Tpls, TypeOK, LeaveCall(l),
         \A a \in held'[l] :
            /\ a.start + a.num <= TotalPages
            /\ \A b \in held'[l] : a # b => \A p \in PagesOf(a) : p \notin PagesOf(b)
  PROVE  LevelOK(l)' /\ InFlight(l)' = {}
<1>1. pc'[l] = "idle"
  BY DEF TypeOK, LeaveCall
<1>2. InFlight(l)' = {} /\ Claim(l)' = {}
  BY <1>1 DEF InFlight, Claim
<1>3. HeldOK(l)'
  BY <1>2 DEF HeldOK
<1>. QED  BY <1>1, <1>2, <1>3 DEF LevelOK, FrameOK, ClaimFree, RegisterCurrent, ScanComplete

(* "Pool exhausted": nothing was marked, nothing is owned.                 *)
LEMMA AllocateFailsStep ==
  ASSUME NestingInv, NEW l \in Tpls, AllocateFails(l)
  PROVE  NestingInv'
<1>1. \A m \in Tpls : m # l => SameFrame(m)
  BY DEF NestingInv, TypeOK, SameFrame, AllocateFails, LeaveCall
<1>2. TypeOK'
  BY PoolAssumption DEF NestingInv, TypeOK, Locations, AllocateFails, LeaveCall
<1>3. StackOK' /\ bitmap' = bitmap
  BY ZenonT(30) DEF NestingInv, TypeOK, StackOK, Running, AllocateFails, LeaveCall
<1>4. LevelOK(l)' /\ InFlight(l)' = {}
  BY LeftCallOK DEF NestingInv, LevelOK, HeldOK, AllocateFails
<1>5. InFlight(l) = {}
  BY DEF AllocateFails, InFlight
<1>6. Owned(l)' = Owned(l)
  BY <1>4, <1>5 DEF Owned, HeldPages, AllocateFails
<1>. QED  BY <1>1, <1>2, <1>3, <1>4, <1>6, QuietStep

(* All bits of the freed run are clear and none was owned any more.        *)
LEMMA FreeReturnStep ==
  ASSUME NestingInv, NEW l \in Tpls, FreeReturn(l)
  PROVE  NestingInv'
<1>1. \A m \in Tpls : m # l => SameFrame(m)
  BY DEF NestingInv, TypeOK, SameFrame, FreeReturn, LeaveCall
<1>2. TypeOK'
  BY PoolAssumption DEF NestingInv, TypeOK, Locations, FreeReturn, LeaveCall
<1>3. StackOK' /\ bitmap' = bitmap
  BY ZenonT(30) DEF NestingInv, TypeOK, StackOK, Running, FreeReturn, LeaveCall
<1>4. LevelOK(l)' /\ InFlight(l)' = {}
  BY LeftCallOK DEF NestingInv, LevelOK, HeldOK, FreeReturn
<1>5. InFlight(l) = {}
  BY PoolAssumption DEF FreeReturn, InFlight, Pages, NestingInv, TypeOK
<1>6. Owned(l)' = Owned(l)
  BY <1>4, <1>5 DEF Owned, HeldPages, FreeReturn
<1>. QED  BY <1>1, <1>2, <1>3, <1>4, <1>6, QuietStep

(* The byte BitmapSetBit loads is the one this level and those below made.  *)
LEMMA SetLoadStep ==
  ASSUME NestingInv, NEW l \in Tpls, SetLoad(l)
  PROVE  NestingInv'
<1>1. \A m \in Tpls : m # l => SameFrame(m)
  BY DEF NestingInv, TypeOK, SameFrame, SetLoad
<1>2. TypeOK'
  BY DEF NestingInv, TypeOK, Locations, SetLoad
<1>3. StackOK' /\ bitmap' = bitmap
  BY DEF NestingInv, TypeOK, StackOK, Running, SetLoad
<1>4. /\ pc[l] = "set" /\ pc'[l] = "setStore" /\ NumPages'[l] = NumPages[l]
      /\ RunStart'[l] = RunStart[l] /\ i'[l] = i[l] /\ held'[l] = held[l]
      /\ byte'[l] = bitmap \cap ByteOf(i[l]) /\ i[l] < RunStart[l] + NumPages[l]
      /\ Running(l)
  BY DEF NestingInv, TypeOK, SetLoad
<1>5. InFlight(l)' = InFlight(l) /\ Claim(l)' = Claim(l) /\ Owned(l)' = Owned(l)
  BY ZenonT(30), <1>4 DEF InFlight, Claim, Owned, HeldPages
<1>6. FrameOK(l)' /\ HeldOK(l)' /\ ScanComplete(l)'
  BY <1>4, <1>5 DEF FrameOK, HeldOK, ScanComplete, LevelOK, NestingInv
<1>7. \A m \in Tpls : Owned(m)' = Owned(m)
  BY <1>1, <1>5, SameFrameSameOwned
<1>8. ClaimFree(l)'
  BY <1>5, <1>7 DEF ClaimFree, LevelOK, NestingInv
<1>9. RegisterCurrent(l)'
  <2>1. \A p \in Pages : OwnedUpTo(l, p)' <=> p \in bitmap
    BY <1>4, <1>7, RunningSeesItsOwn DEF OwnedUpTo
  <2>. QED  BY <1>4, <2>1 DEF RegisterCurrent
<1>. QED  BY <1>1, <1>2, <1>3, <1>5, <1>6, <1>8, <1>9, QuietStep DEF LevelOK

(* The byte BitmapClearBit loads is the one this level and those below made. *)
LEMMA ClearLoadStep ==
  ASSUME NestingInv, NEW l \in Tpls, ClearLoad(l)
  PROVE  NestingInv'
<1>1. \A m \in Tpls : m # l => SameFrame(m)
  BY DEF NestingInv, TypeOK, SameFrame, ClearLoad
<1>2. TypeOK'
  BY DEF NestingInv, TypeOK, Locations, ClearLoad
<1>3. StackOK' /\ bitmap' = bitmap
  BY DEF NestingInv, TypeOK, StackOK, Running, ClearLoad
<1>4. /\ pc[l] = "clear" /\ pc'[l] = "clearStore" /\ NumPages'[l] = NumPages[l]
      /\ RunStart'[l] = RunStart[l] /\ i'[l] = i[l] /\ held'[l] = held[l]
      /\ byte'[l] = bitmap \cap ByteOf(i[l]) /\ i[l] < RunStart[l] + NumPages[l]
      /\ Running(l)
  BY DEF NestingInv, TypeOK, ClearLoad
<1>5. InFlight(l)' = InFlight(l) /\ Claim(l)' = Claim(l) /\ Owned(l)' = Owned(l)
  BY ZenonT(30), <1>4 DEF InFlight, Claim, Owned, HeldPages
<1>6. FrameOK(l)' /\ HeldOK(l)' /\ ScanComplete(l)'
  BY ZenonT(30), <1>4, <1>5 DEF FrameOK, HeldOK, ScanComplete, LevelOK, NestingInv
<1>7. \A m \in Tpls : Owned(m)' = Owned(m)
  BY <1>1, <1>5, SameFrameSameOwned
<1>8. ClaimFree(l)'
  BY <1>5, <1>7 DEF ClaimFree, LevelOK, NestingInv
<1>9. RegisterCurrent(l)'
  <2>1. \A p \in Pages : OwnedUpTo(l, p)' <=> p \in bitmap
    BY <1>4, <1>7, RunningSeesItsOwn DEF OwnedUpTo
  <2>. QED  BY <1>4, <2>1 DEF RegisterCurrent
<1>. QED  BY <1>1, <1>2, <1>3, <1>5, <1>6, <1>8, <1>9, QuietStep DEF LevelOK

(* Whatever preempted the read-modify-write is undone: storing the loaded  *)
(* byte back would change nothing.                                         *)
LEMMA StoredByteIsCurrent ==
  ASSUME NestingInv, NEW l \in Tpls, Running(l),
         pc[l] \in {"setStore", "clearStore"}
  PROVE  \A p \in Pages : p \in ByteOf(i[l]) => (p \in byte[l] <=> p \in bitmap)
  BY RunningSeesItsOwn DEF NestingInv, LevelOK, RegisterCurrent

(* BitmapSetBit marks a page of the claim: the bit and the ownership of    *)
(* exactly one page change.                                                *)
LEMMA SetStoreStep ==
  ASSUME NestingInv, NEW l \in Tpls, SetStore(l)
  PROVE  NestingInv'
<1>1. \A m \in Tpls : m # l => SameFrame(m)
  BY DEF NestingInv, TypeOK, SameFrame, SetStore
<1>2. /\ pc[l] = "setStore" /\ pc'[l] = "set" /\ NumPages'[l] = NumPages[l]
      /\ RunStart'[l] = RunStart[l] /\ i'[l] = i[l] + 1 /\ held'[l] = held[l]
      /\ bitmap' = (bitmap \ ByteOf(i[l])) \cup byte[l] \cup {i[l]}
      /\ Running(l) /\ i[l] \in Nat /\ RunStart[l] \in Nat /\ NumPages[l] \in Nat
      /\ byte[l] \subseteq Pages /\ bitmap \subseteq Pages
  BY DEF NestingInv, TypeOK, SetStore
<1>3. /\ RunStart[l] <= i[l] /\ i[l] < RunStart[l] + NumPages[l]
      /\ RunStart[l] + NumPages[l] <= TotalPages
      /\ i[l] \in Pages /\ i[l] \in Claim(l)
  <2>1. FrameOK(l)
    BY ZenonT(30) DEF NestingInv, LevelOK
  <2>2. /\ RunStart[l] <= i[l] /\ i[l] < RunStart[l] + NumPages[l]
        /\ RunStart[l] + NumPages[l] <= TotalPages
    BY <1>2, <2>1 DEF FrameOK
  <2>3. i[l] \in Pages
    BY <1>2, <2>2, PoolAssumption DEF Pages
  <2>4. i[l] \in Claim(l)
    BY <1>2, <2>2, <2>3 DEF Claim
  <2>. QED  BY <2>2, <2>3, <2>4
<1>4. TypeOK'
  <2>1. i[l] + 1 \in 0 .. TotalPages /\ bitmap' \subseteq Pages
    BY <1>2, <1>3, PoolAssumption
  <2>. QED  BY <2>1 DEF NestingInv, TypeOK, Locations, SetStore
<1>5. StackOK'
  BY ZenonT(30) DEF NestingInv, TypeOK, StackOK, Running, SetStore
<1>6. InFlight(l)' = InFlight(l) \cup {i[l]}
  <2>. SUFFICES ASSUME NEW p \in Pages, p \in Nat
                PROVE  p \in InFlight(l)' <=> p \in InFlight(l) \/ p = i[l]
    BY Zenon, <1>3, PagesAreNumbers DEF InFlight
  <2>1. p \in InFlight(l) <=> RunStart[l] <= p /\ p < i[l]
    BY <1>2 DEF InFlight
  <2>2. p \in InFlight(l)' <=> RunStart[l] <= p /\ p < i[l] + 1
    BY <1>2 DEF InFlight, Pages
  <2>. QED  BY <1>2, <1>3, <2>1, <2>2
<1>7. Owned(l)' = Owned(l) \cup {i[l]}
  BY <1>2, <1>6 DEF Owned, HeldPages
<1>8. \A m \in Tpls : m <= l => i[l] \notin Owned(m)
  BY <1>3 DEF NestingInv, LevelOK, ClaimFree
<1>9. \A m \in Tpls : m < l => \A p \in Owned(l)' : p \notin Owned(m)
  BY <1>7, <1>8, PagesAreNumbers DEF NestingInv, LevelsApart
<1>10. ASSUME NEW p \in Pages
       PROVE  p \in bitmap' <=> \/ p \in Owned(l)'
                                \/ \E m \in Tpls : m # l /\ p \in Owned(m)
  <2>1. p \in bitmap' <=> p \in bitmap \/ p = i[l]
    <3>1. p \in byte[l] => p \in ByteOf(i[l])
      BY <1>2 DEF NestingInv, LevelOK, RegisterCurrent
    <3>. QED  BY <1>2, <3>1, StoredByteIsCurrent
  <2>2. p \in bitmap <=> \E m \in Tpls : p \in Owned(m)
    BY DEF NestingInv, BitSetMeansAllocated
  <2>. QED  BY <1>7, <2>1, <2>2
<1>11. FrameOK(l)'
  BY SMTT(30), <1>2, <1>3 DEF FrameOK
<1>12. HeldOK(l)'
  <2>1. \A a \in held[l] : i[l] \notin PagesOf(a)
    BY <1>8, PagesAreNumbers DEF Owned, HeldPages
  <2>. QED  BY <1>2, <1>6, <2>1 DEF HeldOK, LevelOK, NestingInv
<1>13. ClaimFree(l)'
  <2>1. \A p \in Claim(l)' : p \in Claim(l) /\ p # i[l]
    BY <1>2, <1>3, PoolAssumption DEF Claim, Pages
  <2>2. \A m \in Tpls : m # l => Owned(m)' = Owned(m)
    BY ZenonT(30), <1>1, SameFrameSameOwned
  <2>. QED  BY <1>7, <2>1, <2>2, PagesAreNumbers DEF ClaimFree, LevelOK, NestingInv
<1>14. RegisterCurrent(l)' /\ ScanComplete(l)'
  BY <1>2 DEF RegisterCurrent, ScanComplete
<1>. QED  BY <1>1, <1>2, <1>4, <1>5, <1>9, <1>10, <1>11, <1>12, <1>13, <1>14, StoreStep
          DEF LevelOK

(* BitmapClearBit releases a page of the freed run: the bit and the        *)
(* ownership of exactly one page change.                                   *)
LEMMA ClearStoreStep ==
  ASSUME NestingInv, NEW l \in Tpls, ClearStore(l)
  PROVE  NestingInv'
<1>1. \A m \in Tpls : m # l => SameFrame(m)
  BY DEF NestingInv, TypeOK, SameFrame, ClearStore
<1>2. /\ pc[l] = "clearStore" /\ pc'[l] = "clear" /\ NumPages'[l] = NumPages[l]
      /\ RunStart'[l] = RunStart[l] /\ i'[l] = i[l] + 1 /\ held'[l] = held[l]
      /\ bitmap' = (bitmap \ ByteOf(i[l])) \cup (byte[l] \ {i[l]})
      /\ Running(l) /\ i[l] \in Nat /\ RunStart[l] \in Nat /\ NumPages[l] \in Nat
      /\ byte[l] \subseteq Pages /\ bitmap \subseteq Pages
  BY SMTT(30) DEF NestingInv, TypeOK, ClearStore
<1>3. /\ RunStart[l] <= i[l] /\ i[l] < RunStart[l] + NumPages[l]
      /\ RunStart[l] + NumPages[l] <= TotalPages
      /\ i[l] \in Pages /\ i[l] \in InFlight(l)
  <2>1. FrameOK(l)
    BY DEF NestingInv, LevelOK
  <2>2. /\ RunStart[l] <= i[l] /\ i[l] < RunStart[l] + NumPages[l]
        /\ RunStart[l] + NumPages[l] <= TotalPages
    BY <1>2, <2>1 DEF FrameOK
  <2>3. i[l] \in Pages
    BY <1>2, <2>2, PoolAssumption DEF Pages
  <2>4. i[l] \in InFlight(l)
    BY <1>2, <2>2, <2>3 DEF InFlight
  <2>. QED  BY <2>2, <2>3, <2>4
<1>4. TypeOK'
  <2>1. i[l] + 1 \in 0 .. TotalPages /\ bitmap' \subseteq Pages
    BY <1>2, <1>3, PoolAssumption
  <2>. QED  BY <2>1 DEF NestingInv, TypeOK, Locations, ClearStore
<1>5. StackOK'
  BY ZenonT(30) DEF NestingInv, TypeOK, StackOK, Running, ClearStore
<1>6. InFlight(l)' = InFlight(l) \ {i[l]}
  <2>. SUFFICES ASSUME NEW p \in Pages, p \in Nat
                PROVE  p \in InFlight(l)' <=> p \in InFlight(l) /\ p # i[l]
    BY Zenon, PagesAreNumbers DEF InFlight
  <2>1. p \in InFlight(l) <=> i[l] <= p /\ p < RunStart[l] + NumPages[l]
    BY <1>2 DEF InFlight
  <2>2. p \in InFlight(l)' <=> i[l] + 1 <= p /\ p < RunStart[l] + NumPages[l]
    BY <1>2 DEF InFlight, Pages
  <2>. QED  BY <1>2, <2>1, <2>2
<1>7. Owned(l)' = Owned(l) \ {i[l]}
  <2>1. i[l] \notin HeldPages(l)
    BY <1>3 DEF HeldPages, NestingInv, LevelOK, HeldOK
  <2>. QED  BY <1>2, <1>6, <2>1 DEF Owned, HeldPages
<1>8. i[l] \in Owned(l)
  BY <1>3 DEF Owned
<1>9. \A m \in Tpls : m < l => \A p \in Owned(l)' : p \notin Owned(m)
  BY <1>7, PagesAreNumbers DEF NestingInv, LevelsApart
<1>10. ASSUME NEW p \in Pages
       PROVE  p \in bitmap' <=> \/ p \in Owned(l)'
                                \/ \E m \in Tpls : m # l /\ p \in Owned(m)
  <2>1. p \in bitmap' <=> p \in bitmap /\ p # i[l]
    <3>1. p \in byte[l] => p \in ByteOf(i[l])
      BY <1>2 DEF NestingInv, LevelOK, RegisterCurrent
    <3>2. i[l] \in ByteOf(i[l])
      BY <1>3 DEF ByteOf
    <3>. QED  BY <1>2, <3>1, <3>2, StoredByteIsCurrent
  <2>2. p \in bitmap <=> \E m \in Tpls : p \in Owned(m)
    BY DEF NestingInv, BitSetMeansAllocated
  <2>3. \A m \in Tpls : m # l => i[l] \notin Owned(m)
    BY <1>8 DEF NestingInv, LevelsApart
  <2>. QED  BY <1>7, <2>1, <2>2, <2>3
<1>11. FrameOK(l)'
  BY SMTT(30), <1>2, <1>3 DEF FrameOK
<1>12. HeldOK(l)'
  BY ZenonT(30), <1>2, <1>6 DEF HeldOK, LevelOK, NestingInv
<1>13. ClaimFree(l)' /\ RegisterCurrent(l)' /\ ScanComplete(l)'
  BY <1>2 DEF ClaimFree, Claim, RegisterCurrent, ScanComplete
<1>. QED  BY <1>1, <1>2, <1>4, <1>5, <1>9, <1>10, <1>11, <1>12, <1>13, StoreStep
          DEF LevelOK

(* The marked run becomes an allocation of the caller; no page changes     *)
(* hands.                                                                  *)
LEMMA AllocateReturnStep ==
  ASSUME NestingInv, NEW l \in Tpls, AllocateReturn(l)
  PROVE  NestingInv'
<1>. DEFINE a == [start |-> RunStart[l], num |-> NumPages[l]]
<1>1. \A m \in Tpls : m # l => SameFrame(m)
  BY DEF NestingInv, TypeOK, SameFrame, AllocateReturn, LeaveCall
<1>2. /\ pc[l] = "set" /\ held'[l] = held[l] \cup {a} /\ i[l] = RunStart[l] + NumPages[l]
      /\ RunStart[l] \in 0 .. TotalPages /\ NumPages[l] \in Nat /\ LeaveCall(l) /\ TypeOK
  BY ZenonT(30) DEF NestingInv, TypeOK, AllocateReturn
<1>3. RunStart[l] + NumPages[l] <= TotalPages
  BY ZenonT(30), <1>2 DEF NestingInv, LevelOK, FrameOK
<1>4. a \in Allocation
  BY <1>2, <1>3, PoolAssumption DEF Allocation
<1>5. TypeOK'
  BY <1>4, PoolAssumption DEF NestingInv, TypeOK, Locations, AllocateReturn, LeaveCall
<1>6. StackOK' /\ bitmap' = bitmap
  BY DEF NestingInv, TypeOK, StackOK, Running, AllocateReturn, LeaveCall
<1>7. PagesOf(a) = InFlight(l)
  BY <1>2, <1>3, PoolAssumption DEF PagesOf, Run, InFlight, Pages
<1>8. /\ \A b \in held'[l] : b.start + b.num <= TotalPages
      /\ \A b, c \in held'[l] : b # c => \A p \in PagesOf(b) : p \notin PagesOf(c)
  <2>1. HeldOK(l)
    BY DEF NestingInv, LevelOK
  <2>2. \A b \in held[l] : \A p \in PagesOf(b) : p \notin PagesOf(a)
    BY <1>7, <2>1 DEF HeldOK
  <2>. HIDE DEF a
  <2>3. \A b, c \in held'[l] : b # c => \A p \in PagesOf(b) : p \notin PagesOf(c)
    BY <1>2, <2>1, <2>2 DEF HeldOK
  <2>4. \A b \in held'[l] : b.start + b.num <= TotalPages
    BY <1>2, <1>3, <2>1 DEF HeldOK, a
  <2>. QED  BY <2>3, <2>4
<1>9. LevelOK(l)' /\ InFlight(l)' = {}
  BY <1>2, <1>8, LeftCallOK
<1>10. Owned(l)' = Owned(l)
  <2>1. HeldPages(l)' = HeldPages(l) \cup PagesOf(a)
    BY ZenonT(30), <1>2 DEF HeldPages
  <2>. QED  BY <1>7, <1>9, <2>1 DEF Owned
<1>. QED  BY <1>1, <1>5, <1>6, <1>9, <1>10, QuietStep

(* The freed allocation becomes the run whose bits are to be cleared; no   *)
(* page changes hands yet.                                                 *)
LEMMA FreeOwnStep ==
  ASSUME NestingInv, NEW l \in Tpls, NEW a \in held[l], FreeCall(l, l, a)
  PROVE  NestingInv'
<1>1. \A m \in Tpls : m # l => SameFrame(m)
  BY DEF NestingInv, TypeOK, SameFrame, FreeCall
<1>2. HeldOK(l) /\ TypeOK /\ a \in Allocation
  BY ZenonT(30) DEF NestingInv, LevelOK, TypeOK
<1>3. /\ a.start \in Nat /\ a.num \in Nat /\ a.start + a.num <= TotalPages
      /\ a.start \in 0 .. TotalPages
  BY <1>2 DEF HeldOK, Allocation
<1>4. /\ pc[l] = "idle" /\ pc'[l] = "clear" /\ NumPages'[l] = a.num
      /\ RunStart'[l] = a.start /\ i'[l] = a.start /\ held'[l] = held[l] \ {a}
  <2>1. ~(a.start + a.num > TotalPages)
    BY <1>3, PoolAssumption
  <2>. QED  BY <1>2, <2>1 DEF TypeOK, FreeCall
<1>5. TypeOK'
  BY <1>2, <1>3, PoolAssumption DEF TypeOK, Locations, FreeCall
<1>6. StackOK' /\ bitmap' = bitmap
  BY DEF NestingInv, TypeOK, StackOK, Running, FreeCall
<1>7. InFlight(l)' = PagesOf(a) /\ InFlight(l) = {}
  BY <1>3, <1>4, PoolAssumption DEF PagesOf, Run, InFlight, Pages
<1>8. Owned(l)' = Owned(l)
  <2>1. HeldPages(l) = HeldPages(l)' \cup PagesOf(a)
    BY <1>4 DEF HeldPages
  <2>. QED  BY <1>7, <2>1 DEF Owned
<1>9. FrameOK(l)'
  BY <1>3, <1>4 DEF FrameOK
<1>10. HeldOK(l)'
  BY <1>2, <1>4, <1>7 DEF HeldOK
<1>11. ClaimFree(l)' /\ RegisterCurrent(l)' /\ ScanComplete(l)'
  BY ZenonT(30), <1>4 DEF ClaimFree, Claim, RegisterCurrent, ScanComplete
<1>. QED  BY <1>1, <1>5, <1>6, <1>8, <1>9, <1>10, <1>11, QuietStep DEF LevelOK

(* Pages of another level are freed where no call is interrupted: the run  *)
(* passes to the freeing call, and nobody's view of the bitmap is disturbed. *)
LEMMA FreeOtherStep ==
  ASSUME NestingInv, ~overtaken', NEW l \in Tpls, NEW k \in Tpls, k # l,
         NEW a \in held[k], FreeCall(l, k, a)
  PROVE  NestingInv'
<1>1. Running(l) /\ pc[l] = "idle" /\ ~InsideCall(l) /\ TypeOK
  BY Zenon DEF FreeCall, NestingInv
<1>2. \A m \in Tpls : pc[m] = "idle" /\ InFlight(m) = {} /\ Owned(m) = HeldPages(m)
  BY <1>1, NobodyInCall
<1>3. \A m \in Tpls : HeldOK(m)
  BY DEF NestingInv, LevelOK
<1>4. /\ a.start \in Nat /\ a.num \in Nat /\ a.start + a.num <= TotalPages
      /\ a.start \in 0 .. TotalPages
  <2>1. a \in Allocation
    BY <1>1 DEF TypeOK
  <2>. QED  BY <1>3, <2>1 DEF HeldOK, Allocation
<1>5. /\ pc'[l] = "clear" /\ NumPages'[l] = a.num
      /\ RunStart'[l] = a.start /\ i'[l] = a.start
      /\ \A m \in Tpls : m # l => pc'[m] = "idle"
  <2>1. ~(a.start + a.num > TotalPages)
    BY <1>4, PoolAssumption
  <2>. QED  BY <1>1, <1>2, <2>1 DEF TypeOK, FreeCall
<1>6. /\ held'[k] = held[k] \ {a}
      /\ \A m \in Tpls : m # k => held'[m] = held[m]
  BY <1>1 DEF TypeOK, FreeCall
<1>7. TypeOK'
  BY <1>1, <1>4, PoolAssumption DEF TypeOK, Locations, FreeCall
<1>8. StackOK' /\ bitmap' = bitmap
  <2>1. active' = active /\ bitmap' = bitmap
    BY DEF FreeCall
  <2>2. \A m \in Tpls : held[m] = {} => held'[m] = {}
    BY <1>6
  <2>. QED  BY <1>1, <1>5, <2>1, <2>2 DEF NestingInv, StackOK, Running
<1>9. InFlight(l)' = PagesOf(a)
  BY <1>4, <1>5, PoolAssumption DEF PagesOf, Run, InFlight, Pages
<1>10. \A m, n \in Tpls : m # n => \A p \in HeldPages(m) : p \notin HeldPages(n)
  BY <1>2 DEF NestingInv, LevelsApart
<1>11. /\ \A m \in Tpls : m # k => HeldPages(m)' = HeldPages(m)
       /\ HeldPages(k) = HeldPages(k)' \cup PagesOf(a)
       /\ \A p \in PagesOf(a) : p \notin HeldPages(k)'
  BY <1>3, <1>6 DEF HeldPages, HeldOK
<1>12. ASSUME NEW m \in Tpls, m # l
       PROVE  LevelOK(m)' /\ Owned(m)' = HeldPages(m)'
  <2>1. held'[m] \subseteq held[m]
    BY <1>6
  <2>. QED  BY <1>3, <1>5, <1>12, <2>1, IdleHolderOK DEF HeldOK
<1>13. LevelOK(l)'
  <2>1. FrameOK(l)'
    BY <1>4, <1>5 DEF FrameOK
  <2>2. \A b \in held[l] : \A p \in PagesOf(b) : p \notin PagesOf(a)
    BY <1>10 DEF HeldPages
  <2>3. HeldOK(l)'
    BY <1>3, <1>6, <1>9, <2>2 DEF HeldOK
  <2>. QED  BY <1>5, <2>1, <2>3
            DEF LevelOK, ClaimFree, Claim, RegisterCurrent, ScanComplete
<1>14. Owned(l)' = HeldPages(l) \cup PagesOf(a)
  BY <1>9, <1>11 DEF Owned
<1>15. LevelsApart'
  BY <1>10, <1>11, <1>12, <1>14 DEF LevelsApart
<1>16. BitSetMeansAllocated'
  BY SMTT(30), <1>2, <1>8, <1>11, <1>12, <1>14 DEF NestingInv, BitSetMeansAllocated
<1>. QED  BY <1>7, <1>8, <1>12, <1>13, <1>15, <1>16 DEF NestingInv

-----------------------------------------------------------------------------
(* Every step of every level that overtakes no call keeps the invariant.   *)
LEMMA NextNesting ==
  ASSUME NestingInv, [Next]_vars, ~overtaken'
  PROVE  NestingInv'
<1>1. CASE UNCHANGED vars
  <2>1. \A m \in Tpls : SameFrame(m) /\ Owned(m)' = Owned(m)
    BY <1>1, SameFrameSameOwned DEF vars, SameFrame
  <2>2. TypeOK' /\ StackOK' /\ bitmap' = bitmap
    BY <1>1 DEF vars, NestingInv, TypeOK, StackOK
  <2>3. LevelOK(BaseTpl)'
    BY <2>1, LevelKept, TplAssumption DEF NestingInv
  <2>. QED  BY SMTT(30), <2>1, <2>2, <2>3, QuietStep, TplAssumption
<1>2. ASSUME NEW l \in Tpls, NEW n \in 0 .. MaxRequest, AllocateCall(l, n)
      PROVE  NestingInv'
  BY <1>2, AllocateCallStep, PoolAssumption
<1>3. ASSUME NEW l \in Tpls, NEW m \in Tpls, NEW a \in held[m], FreeCall(l, m, a)
      PROVE  NestingInv'
  BY SMTT(30), <1>3, FreeOwnStep, FreeOtherStep
<1>. QED  BY <1>1, <1>2, <1>3, PreemptStep, ReturnStep, ScanAllocatedStep, ScanFreeStep,
             AllocateFailsStep, SetLoadStep, SetStoreStep, AllocateReturnStep,
             ClearLoadStep, ClearStoreStep, FreeReturnStep
          DEF Next

(* Nothing takes back that a call was overtaken.                           *)
LEMMA OvertakenStays ==
  ASSUME overtaken, [Next]_vars
  PROVE  overtaken'
  BY Zenon DEF Next, vars, Preempt, Return, AllocateCall, ScanAllocated, ScanFree, AllocateFails,
         SetLoad, SetStore, AllocateReturn, FreeCall, ClearLoad, ClearStore, FreeReturn

(* Whatever the pool size, the levels and the requests, the calls and the  *)
(* callbacks that preempt them (DmaPool.c raises no TPL) stay out of each  *)
(* other's way until a callback overtakes a call.                          *)
THEOREM NestingSafe == Spec => [](~overtaken => NestingInv)
<1>1. Init => (~overtaken => NestingInv)
  BY InitNesting
<1>2. (~overtaken => NestingInv) /\ [Next]_vars => (~overtaken => NestingInv)'
  BY NextNesting, OvertakenStays
<1>. QED  BY <1>1, <1>2, PTL DEF Spec

(* No page is handed to two callers, at the same or at different levels.   *)
LEMMA NestingExclusive == (~overtaken => NestingInv) => ExclusiveOwnership
<1>. SUFFICES ASSUME NestingInv, NEW l \in Tpls, NEW m \in Tpls,
                     NEW a \in held[l], NEW b \in held[m], <<l, a>> # <<m, b>>
              PROVE  PagesOf(a) \cap PagesOf(b) = {}
  BY DEF ExclusiveOwnership
<1>1. CASE l = m
  BY <1>1 DEF NestingInv, LevelOK, HeldOK
<1>2. CASE l # m
  BY <1>2 DEF NestingInv, LevelsApart, Owned, HeldPages
<1>. QED  BY <1>1, <1>2

(* DmaPoolAllocatePages hands out no page twice before a call is           *)
(* overtaken, for every pool size, every set of levels and every request   *)
(* size.                                                                   *)
THEOREM OwnershipExclusive == Spec => []ExclusiveOwnership
  BY NestingSafe, NestingExclusive, PTL

(* "Bit set = allocated" (DmaPool.c:26) at every instruction, before a     *)
(* call is overtaken.                                                      *)
THEOREM BitmapExact == Spec => [](~overtaken => BitSetMeansAllocated)
<1>1. (~overtaken => NestingInv) => (~overtaken => BitSetMeansAllocated)
  BY DEF NestingInv
<1>. QED  BY <1>1, NestingSafe, PTL

(* A failed BitmapFindFreeRun that was not overtaken has missed no run.    *)
THEOREM ScanMissesNoRun == Spec => []ExhaustedIsExhausted
<1>1. (~overtaken => NestingInv) => ExhaustedIsExhausted
  <2>. SUFFICES ASSUME NestingInv, NEW l \in Tpls,
                       Running(l), pc[l] = "scan", i[l] = TotalPages,
                       NEW s \in Pages, s + Needed(NumPages[l]) <= TotalPages
                PROVE  \E p \in Run(s, Needed(NumPages[l])) : p \in bitmap
    BY DEF ExhaustedIsExhausted
  <2>1. PICK p \in Run(s, Needed(NumPages[l])) : OwnedUpTo(l, p)
    BY DEF NestingInv, LevelOK, ScanComplete
  <2>2. Needed(NumPages[l]) \in Nat
    BY NeededPositive DEF NestingInv, TypeOK
  <2>3. p \in Pages
    BY <2>1, <2>2, PoolAssumption DEF Run, Pages
  <2>. QED  BY <2>1, <2>3, RunningSeesItsOwn
<1>. QED  BY <1>1, NestingSafe, PTL

(* A callback that overtakes no call leaves the preempted code nothing but *)
(* the pages it keeps: on its return the bitmap is that of the levels      *)
(* below.                                                                  *)
THEOREM CallbackInvisible == Spec => CallbackLeavesNoTrace
<1>1. ASSUME ~overtaken => NestingInv, [Next]_vars, ~overtaken', NEW l \in active \ active'
      PROVE  bitmap' = UNION {Owned(m)' : m \in {k \in Tpls : k < l}}
  <2>1. NestingInv /\ NestingInv'
    BY <1>1, OvertakenStays, NextNesting
  <2>2. \E k \in Tpls : Return(k)
    BY Zenon, <1>1 DEF Next, vars, Preempt, AllocateCall, ScanAllocated, ScanFree, AllocateFails,
                SetLoad, SetStore, AllocateReturn, FreeCall, ClearLoad, ClearStore, FreeReturn
  <2>3. Return(l) /\ l \in Tpls
    BY Zenon, <1>1, <2>1, <2>2 DEF Return, NestingInv, TypeOK
  <2>4. \A m \in Tpls : m >= l => Owned(m)' = {}
    <3>1. \A m \in Tpls : m >= l => m \notin active'
      BY <2>3, PagesAreNumbers DEF Return, Running
    <3>2. \A m \in Tpls : m >= l => pc'[m] = "idle" /\ held'[m] = {}
      BY <2>1, <3>1 DEF NestingInv, StackOK
    <3>. QED  BY <3>2 DEF Owned, HeldPages, InFlight
  <2>5. \A m \in Tpls : Owned(m)' \subseteq Pages
    <3>. SUFFICES ASSUME NEW m \in Tpls, NEW a \in held'[m], NEW p \in PagesOf(a)
                  PROVE  p \in Pages
      BY DEF Owned, HeldPages, InFlight
    <3>1. a \in Allocation /\ a.start + a.num <= TotalPages
      BY <2>1 DEF NestingInv, TypeOK, LevelOK, HeldOK
    <3>. QED  BY <3>1, PoolAssumption DEF PagesOf, Run, Pages, Allocation
  <2>6. bitmap' \subseteq Pages
    BY <2>1 DEF NestingInv, TypeOK
  <2>7. \A p \in Pages : p \in bitmap' <=> \E m \in Tpls : m < l /\ p \in Owned(m)'
    <3>1. \A p \in Pages : p \in bitmap' <=> \E m \in Tpls : p \in Owned(m)'
      BY <2>1 DEF NestingInv, BitSetMeansAllocated
    <3>2. \A m \in Tpls : m < l \/ m >= l
      BY <2>3, PagesAreNumbers
    <3>. QED  BY <2>4, <3>1, <3>2
  <2>. QED  BY ZenonT(30), <2>5, <2>6, <2>7
<1>2. (~overtaken => NestingInv) /\ [Next]_vars =>
        [\A l \in active \ active' : ~overtaken' =>
            bitmap' = UNION {Owned(m)' : m \in {k \in Tpls : k < l}}]_vars
  BY <1>1
<1>. QED  BY <1>2, NestingSafe, PTL DEF Spec, CallbackLeavesNoTrace

-----------------------------------------------------------------------------
(* The allocations of all levels are what the abstract allocator holds,    *)
(* and its promise is broken only when a call is overtaken: before that,   *)
(* the return of an allocating call is an Allocate, the start of a freeing *)
(* call a Free, and no other step changes them.                            *)
THEOREM ImplementsAllocator == Spec => ImplementsPageAllocator
<1>. DEFINE All == UNION {held[l] : l \in Tpls}
<1>1. Init => Promise!Init
  <2>1. Init => All = {}
    BY DEF Init
  <2>2. Init => overtaken = FALSE
    BY DEF Init
  <2>. QED  BY <2>1, <2>2 DEF Promise!Init
<1>2. ASSUME ~overtaken => NestingInv, ~overtaken' => NestingInv',
             ExclusiveOwnership', [Next]_vars
      PROVE  [Promise!Next]_<<All, overtaken>>
  <2>. SUFFICES ASSUME ~overtaken'
                PROVE  [Promise!Next]_<<All, overtaken>>
    BY DEF Promise!Next
  <2>. ~overtaken /\ NestingInv /\ NestingInv'
    BY <1>2, OvertakenStays
  <2>. overtaken' = overtaken
    <3>1. overtaken \in BOOLEAN /\ overtaken' \in BOOLEAN
      BY DEF NestingInv, TypeOK
    <3>. QED  BY Zenon, <3>1
  <2>1. CASE held' = held
    BY <2>1
  <2>2. ASSUME NEW l \in Tpls, AllocateReturn(l)
        PROVE  [Promise!Next]_<<All, overtaken>>
    <3>. DEFINE a == [start |-> RunStart[l], num |-> NumPages[l]]
    <3>1. held' = [held EXCEPT ![l] = held[l] \cup {a}] /\ held \in [Tpls -> SUBSET Allocation]
      BY ZenonT(30), <1>2, <2>2 DEF AllocateReturn, NestingInv, TypeOK
    <3>2. a \in held'[l] /\ a \in Allocation
      BY <1>2, <3>1 DEF NestingInv, TypeOK
    <3>. HIDE DEF a
    <3>3. All' = All \cup {a}
      BY <3>1
    <3>4. CASE a \in All
      BY Zenon, <3>3, <3>4
    <3>5. CASE a \notin All
      <4>1. PagesOf(a) \subseteq Pages
        BY <1>2, <3>2, PoolAssumption
           DEF NestingInv, LevelOK, HeldOK, PagesOf, Run, Pages, Allocation
      <4>2. ASSUME NEW b \in All PROVE PagesOf(a) \cap PagesOf(b) = {}
        <5>1. PICK m \in Tpls : b \in held[m]
          OBVIOUS
        <5>2. b \in held'[m] /\ b # a
          BY <5>1, <3>1, <3>5
        <5>3. \A k, n \in Tpls : \A c \in held'[k], d \in held'[n] :
                 <<k, c>> # <<n, d>> => PagesOf(c) \cap PagesOf(d) = {}
          BY <1>2 DEF ExclusiveOwnership
        <5>. QED  BY <3>2, <5>2, <5>3
      <4>3. a \in Promise!Allocation
        BY <3>2 DEF Promise!Allocation, Allocation
      <4>4. \E c \in Promise!Allocation : Promise!Allocate(c)
        BY Zenon, <3>3, <4>1, <4>2, <4>3
           DEF Promise!Allocate, Promise!PagesOf, Promise!Run,
               Promise!Disjoint, PagesOf, Run, Pages
      <4>. QED  BY ZenonT(30), <4>4 DEF Promise!Next
    <3>. QED  BY <3>4, <3>5
  <2>3. ASSUME NEW l \in Tpls, NEW k \in Tpls, NEW a \in held[k], FreeCall(l, k, a)
        PROVE  [Promise!Next]_<<All, overtaken>>
    <3>1. held' = [held EXCEPT ![k] = held[k] \ {a}] /\ held \in [Tpls -> SUBSET Allocation]
      BY <1>2, <2>3 DEF FreeCall, NestingInv, TypeOK
    <3>2. All' = All \ {a} \/ All' = All
      <4>1. CASE \E m \in Tpls : m # k /\ a \in held[m]
        BY <3>1, <4>1
      <4>2. CASE ~\E m \in Tpls : m # k /\ a \in held[m]
        BY <3>1, <4>2
      <4>. QED  BY Zenon, <4>1, <4>2
    <3>. QED  BY Zenon, <3>2 DEF Promise!Next, Promise!Free
  <2>4. ASSUME NEW l \in Tpls, Return(l)
        PROVE  [Promise!Next]_<<All, overtaken>>
    <3>1. /\ held \in [Tpls -> SUBSET Allocation] /\ BaseTpl \in Tpls /\ l # BaseTpl
          /\ held' = [held EXCEPT ![l] = {}, ![BaseTpl] = held[BaseTpl] \cup held[l]]
      BY <2>4, TplAssumption DEF Return, NestingInv, TypeOK
    <3>2. All' = All
      BY <3>1
    <3>. QED  BY <3>2
  <2>. QED
    BY Zenon, <1>2, <2>1, <2>2, <2>3, <2>4
       DEF Next, vars, Preempt, AllocateCall, ScanAllocated, ScanFree, AllocateFails,
           SetLoad, SetStore, ClearLoad, ClearStore, FreeReturn
<1>. QED  BY <1>1, <1>2, NestingSafe, OwnershipExclusive, PTL
          DEF Spec, ImplementsPageAllocator, Promise!Spec
=============================================================================
