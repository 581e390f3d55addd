------------------------------ MODULE DmaPool ------------------------------
(***************************************************************************)
(* The page allocator of the restricted DMA pool (GunyahIoMmuDxe,          *)
(* DmaPool.c), at the grain at which a timer interrupt can preempt it.     *)
(*                                                                         *)
(* A boot-services caller runs at a task priority level (TPL).  A callback *)
(* of a higher level preempts it between any two instructions and runs to  *)
(* its end before the preempted code goes on, so the active levels form a  *)
(* stack whose top is the highest one.  The allocator never raises the     *)
(* TPL.  Its loops are modelled one iteration at a time, and the           *)
(* read-modify-write of a bitmap byte as a load and a store.               *)
(***************************************************************************)
EXTENDS Integers, FiniteSets

CONSTANTS TotalPages,       \* mPoolTotalPages
          ByteBits,         \* pages that share a byte of mBitmap (8)
          Tpls,             \* the levels callers run at
          BaseTpl,          \* the level that is always active
          MaxRequest        \* bound: the largest NumPages asked for

ASSUME PoolAssumption ==
    /\ TotalPages \in Nat \ {0}
    /\ ByteBits \in Nat \ {0}
    /\ MaxRequest \in Nat

ASSUME TplAssumption ==
    /\ Tpls \subseteq Nat
    /\ BaseTpl \in Tpls
    /\ \A l \in Tpls : BaseTpl <= l

VARIABLES bitmap,    \* the pages whose bit is set in mBitmap
          active,    \* the levels that have code on the stack
          pc,        \* per level: where its call into the allocator stands
          NumPages,  \* per level: the argument of the call
          RunStart,  \* per level: RunStart of the scan, then StartPage
          RunLen,    \* per level: RunLen of the scan
          i,         \* per level: the loop variable
          byte,      \* per level: the register of a read-modify-write
          held,      \* per level: the allocations its callers own
          overtaken  \* history: a callback changed what others own inside a call

vars == <<bitmap, active, pc, NumPages, RunStart, RunLen, i, byte, held, overtaken>>

Pages == 0 .. (TotalPages - 1)

Run(s, n) == s .. (s + n - 1)

PagesOf(a) == Run(a.start, a.num)

Allocation == [start : 0 .. TotalPages, num : 0 .. TotalPages]

(* The pages whose bits share mBitmap[p / 8] with page p.                  *)
ByteOf(p) == {q \in Pages : q \div ByteBits = p \div ByteBits}

(* The code that has the processor: every other active level is preempted. *)
Running(l) == l \in active /\ \A m \in active : m <= l

Init ==
    /\ bitmap = {}
    /\ active = {BaseTpl}
    /\ pc = [l \in Tpls |-> "idle"]
    /\ NumPages = [l \in Tpls |-> 0]
    /\ RunStart = [l \in Tpls |-> 0]
    /\ RunLen = [l \in Tpls |-> 0]
    /\ i = [l \in Tpls |-> 0]
    /\ byte = [l \in Tpls |-> {}]
    /\ held = [l \in Tpls |-> {}]
    /\ overtaken = FALSE

(* The call returns: its locals go away with its stack frame.              *)
LeaveCall(l) ==
    /\ pc' = [pc EXCEPT ![l] = "idle"]
    /\ NumPages' = [NumPages EXCEPT ![l] = 0]
    /\ RunStart' = [RunStart EXCEPT ![l] = 0]
    /\ RunLen' = [RunLen EXCEPT ![l] = 0]
    /\ i' = [i EXCEPT ![l] = 0]
    /\ byte' = [byte EXCEPT ![l] = {}]

(* A timer or event notification of level l preempts whatever is running.  *)
Preempt(l) ==
    /\ l \notin active
    /\ \A m \in active : m < l
    /\ active' = active \cup {l}
    /\ UNCHANGED <<bitmap, pc, NumPages, RunStart, RunLen, i, byte, held, overtaken>>

(* The code of level l has interrupted a call into the allocator.          *)
InsideCall(l) == \E m \in active : m < l /\ pc[m] # "idle"

(* The notification function returns and the preempted level goes on.      *)
(* Pages it keeps (a receive buffer, say) stay with its driver, which may  *)
(* free them at any level: they are held at the base level from here on.   *)
Return(l) ==
    /\ Running(l)
    /\ l # BaseTpl
    /\ pc[l] = "idle"
    /\ active' = active \ {l}
    /\ held' = [held EXCEPT ![l] = {}, ![BaseTpl] = @ \cup held[l]]
    /\ overtaken' = (overtaken \/ (held[l] # {} /\ InsideCall(l)))
    /\ UNCHANGED <<bitmap, pc, NumPages, RunStart, RunLen, i, byte>>

(* DmaPoolAllocatePages (n) is called and BitmapFindFreeRun starts.        *)
AllocateCall(l, n) ==
    /\ Running(l)
    /\ pc[l] = "idle"
    /\ pc' = [pc EXCEPT ![l] = "scan"]
    /\ NumPages' = [NumPages EXCEPT ![l] = n]
    /\ RunStart' = [RunStart EXCEPT ![l] = 0]
    /\ RunLen' = [RunLen EXCEPT ![l] = 0]
    /\ i' = [i EXCEPT ![l] = 0]
    /\ UNCHANGED <<bitmap, active, byte, held, overtaken>>

(* Mutant: the new run starts at the set bit, not behind it.               *)
ScanAllocatedKeepsStart(l) ==
    /\ Running(l)
    /\ pc[l] = "scan"
    /\ i[l] < TotalPages
    /\ i[l] \in bitmap
    /\ RunLen' = [RunLen EXCEPT ![l] = 0]
    /\ RunStart' = [RunStart EXCEPT ![l] = i[l]]
    /\ i' = [i EXCEPT ![l] = i[l] + 1]
    /\ UNCHANGED <<bitmap, active, pc, NumPages, byte, held, overtaken>>

(* The scan meets a set bit: the run starts again behind it.               *)
ScanAllocated(l) ==
    /\ Running(l)
    /\ pc[l] = "scan"
    /\ i[l] < TotalPages
    /\ i[l] \in bitmap
    /\ RunLen' = [RunLen EXCEPT ![l] = 0]
    /\ RunStart' = [RunStart EXCEPT ![l] = i[l] + 1]
    /\ i' = [i EXCEPT ![l] = i[l] + 1]
    /\ UNCHANGED <<bitmap, active, pc, NumPages, byte, held, overtaken>>

(* Mutant: the run must be longer than what is asked for.                  *)
ScanFreeNeedsOneMore(l) ==
    /\ Running(l)
    /\ pc[l] = "scan"
    /\ i[l] < TotalPages
    /\ i[l] \notin bitmap
    /\ RunLen' = [RunLen EXCEPT ![l] = RunLen[l] + 1]
    /\ IF RunLen[l] + 1 > NumPages[l]
         THEN /\ pc' = [pc EXCEPT ![l] = "set"]
              /\ i' = [i EXCEPT ![l] = RunStart[l]]
         ELSE /\ i' = [i EXCEPT ![l] = i[l] + 1]
              /\ UNCHANGED pc
    /\ UNCHANGED <<bitmap, active, NumPages, RunStart, byte, held, overtaken>>

(* The scan meets a clear bit: the run grows, and may be long enough.      *)
ScanFree(l) ==
    /\ Running(l)
    /\ pc[l] = "scan"
    /\ i[l] < TotalPages
    /\ i[l] \notin bitmap
    /\ RunLen' = [RunLen EXCEPT ![l] = RunLen[l] + 1]
    /\ IF RunLen[l] + 1 >= NumPages[l]
         THEN /\ pc' = [pc EXCEPT ![l] = "set"]
              /\ i' = [i EXCEPT ![l] = RunStart[l]]
         ELSE /\ i' = [i EXCEPT ![l] = i[l] + 1]
              /\ UNCHANGED pc
    /\ UNCHANGED <<bitmap, active, NumPages, RunStart, byte, held, overtaken>>

(* The scan ends without a run: EFI_OUT_OF_RESOURCES.                      *)
AllocateFails(l) ==
    /\ Running(l)
    /\ pc[l] = "scan"
    /\ i[l] = TotalPages
    /\ LeaveCall(l)
    /\ UNCHANGED <<bitmap, active, held, overtaken>>

(* BitmapSetBit (i), first half: the byte is loaded.                       *)
SetLoad(l) ==
    /\ Running(l)
    /\ pc[l] = "set"
    /\ i[l] < RunStart[l] + NumPages[l]
    /\ byte' = [byte EXCEPT ![l] = bitmap \cap ByteOf(i[l])]
    /\ pc' = [pc EXCEPT ![l] = "setStore"]
    /\ UNCHANGED <<bitmap, active, NumPages, RunStart, RunLen, i, held, overtaken>>

(* Mutant: the byte is assigned, not or-ed: its other bits are lost.       *)
SetStoreOverwrites(l) ==
    /\ Running(l)
    /\ pc[l] = "setStore"
    /\ bitmap' = (bitmap \ ByteOf(i[l])) \cup {i[l]}
    /\ i' = [i EXCEPT ![l] = i[l] + 1]
    /\ pc' = [pc EXCEPT ![l] = "set"]
    /\ byte' = [byte EXCEPT ![l] = {}]
    /\ UNCHANGED <<active, NumPages, RunStart, RunLen, held, overtaken>>

(* BitmapSetBit (i), second half: the byte is stored with the bit set.     *)
SetStore(l) ==
    /\ Running(l)
    /\ pc[l] = "setStore"
    /\ bitmap' = (bitmap \ ByteOf(i[l])) \cup byte[l] \cup {i[l]}
    /\ i' = [i EXCEPT ![l] = i[l] + 1]
    /\ pc' = [pc EXCEPT ![l] = "set"]
    /\ byte' = [byte EXCEPT ![l] = {}]
    /\ UNCHANGED <<active, NumPages, RunStart, RunLen, held, overtaken>>

(* DmaPoolAllocatePages returns the address: the run is the caller's.      *)
AllocateReturn(l) ==
    /\ Running(l)
    /\ pc[l] = "set"
    /\ i[l] = RunStart[l] + NumPages[l]
    /\ LeaveCall(l)
    /\ held' = [held EXCEPT ![l] =
                  held[l] \cup {[start |-> RunStart[l], num |-> NumPages[l]]}]
    /\ UNCHANGED <<bitmap, active, overtaken>>

(* Mutant: StartPage is one page too high.                                 *)
FreeCallRoundsUp(l, m, a) ==
    /\ Running(l)
    /\ pc[l] = "idle"
    /\ held' = [held EXCEPT ![m] = held[m] \ {a}]
    /\ overtaken' = (overtaken \/ (m # l /\ InsideCall(l)))
    /\ IF a.start + 1 + a.num > TotalPages
         THEN UNCHANGED <<pc, NumPages, RunStart, i>>
         ELSE /\ pc' = [pc EXCEPT ![l] = "clear"]
              /\ NumPages' = [NumPages EXCEPT ![l] = a.num]
              /\ RunStart' = [RunStart EXCEPT ![l] = a.start + 1]
              /\ i' = [i EXCEPT ![l] = a.start + 1]
    /\ UNCHANGED <<bitmap, active, RunLen, byte>>

(* DmaPoolFreePages is called at level l with an allocation that its       *)
(* caller or a lower level (m) made.                                       *)
FreeCall(l, m, a) ==
    /\ Running(l)
    /\ pc[l] = "idle"
    /\ held' = [held EXCEPT ![m] = held[m] \ {a}]
    /\ overtaken' = (overtaken \/ (m # l /\ InsideCall(l)))
    /\ IF a.start + a.num > TotalPages
         THEN UNCHANGED <<pc, NumPages, RunStart, i>>
         ELSE /\ pc' = [pc EXCEPT ![l] = "clear"]
              /\ NumPages' = [NumPages EXCEPT ![l] = a.num]
              /\ RunStart' = [RunStart EXCEPT ![l] = a.start]
              /\ i' = [i EXCEPT ![l] = a.start]
    /\ UNCHANGED <<bitmap, active, RunLen, byte>>

(* BitmapClearBit (i): load, then store with the bit cleared.              *)
ClearLoad(l) ==
    /\ Running(l)
    /\ pc[l] = "clear"
    /\ i[l] < RunStart[l] + NumPages[l]
    /\ byte' = [byte EXCEPT ![l] = bitmap \cap ByteOf(i[l])]
    /\ pc' = [pc EXCEPT ![l] = "clearStore"]
    /\ UNCHANGED <<bitmap, active, NumPages, RunStart, RunLen, i, held, overtaken>>

ClearStore(l) ==
    /\ Running(l)
    /\ pc[l] = "clearStore"
    /\ bitmap' = (bitmap \ ByteOf(i[l])) \cup (byte[l] \ {i[l]})
    /\ i' = [i EXCEPT ![l] = i[l] + 1]
    /\ pc' = [pc EXCEPT ![l] = "clear"]
    /\ byte' = [byte EXCEPT ![l] = {}]
    /\ UNCHANGED <<active, NumPages, RunStart, RunLen, held, overtaken>>

FreeReturn(l) ==
    /\ Running(l)
    /\ pc[l] = "clear"
    /\ i[l] = RunStart[l] + NumPages[l]
    /\ LeaveCall(l)
    /\ UNCHANGED <<bitmap, active, held, overtaken>>

Next ==
    \E l \in Tpls :
        \/ Preempt(l)
        \/ Return(l)
        \/ \E n \in 0 .. MaxRequest : AllocateCall(l, n)
        \/ ScanAllocated(l)
        \/ ScanFree(l)
        \/ AllocateFails(l)
        \/ SetLoad(l)
        \/ SetStore(l)
        \/ AllocateReturn(l)
        \/ \E m \in Tpls : \E a \in held[m] : FreeCall(l, m, a)
        \/ ClearLoad(l)
        \/ ClearStore(l)
        \/ FreeReturn(l)

Spec == Init /\ [][Next]_vars

-----------------------------------------------------------------------------
Locations == {"idle", "scan", "set", "setStore", "clear", "clearStore"}

(* Every variable keeps its shape, and no index leaves the pool, however   *)
(* the calls of the levels interleave.                                     *)
TypeOK ==
    /\ bitmap \subseteq Pages
    /\ active \subseteq Tpls
    /\ pc \in [Tpls -> Locations]
    /\ NumPages \in [Tpls -> Nat]
    /\ RunStart \in [Tpls -> 0 .. TotalPages]
    /\ RunLen \in [Tpls -> 0 .. TotalPages]
    /\ i \in [Tpls -> 0 .. TotalPages]
    /\ byte \in [Tpls -> SUBSET Pages]
    /\ held \in [Tpls -> SUBSET Allocation]
    /\ overtaken \in BOOLEAN

HeldPages(l) == UNION {PagesOf(a) : a \in held[l]}

(* The bits level l has set for the call it is in, or has still to clear.  *)
InFlight(l) ==
    {p \in Pages :
        \/ pc[l] \in {"set", "setStore"} /\ RunStart[l] <= p /\ p < i[l]
        \/ pc[l] \in {"clear", "clearStore"} /\ i[l] <= p /\ p < RunStart[l] + NumPages[l]}

Owned(l) == HeldPages(l) \cup InFlight(l)

(* Two callers, at the same TPL or at different ones, are handed the same  *)
(* page only after a callback that interrupted a call of the allocator has *)
(* kept pages or freed another level's: then the call goes on with a scan  *)
(* or a byte of the bitmap that is out of date, and nothing in DmaPool.c,  *)
(* which raises no TPL, prevents it.                                       *)
ExclusiveOwnership ==
    ~overtaken =>
        \A l, m \in Tpls :
            \A a \in held[l], b \in held[m] :
                <<l, a>> # <<m, b>> => PagesOf(a) \cap PagesOf(b) = {}

(* "Bit set = allocated" (DmaPool.c:26): a set bit has exactly one owner,  *)
(* and whatever a caller owns has its bit set, in mid-call too.            *)
BitSetMeansAllocated ==
    \A p \in Pages : p \in bitmap <=> \E l \in Tpls : p \in Owned(l)

(* The pages a request must find free: a request for none looks for one.   *)
Needed(n) == IF n = 0 THEN 1 ELSE n

(* DmaPoolAllocatePages reports "Pool exhausted" (DmaPool.h) only when no  *)
(* run of the requested length is free, whatever preempted its scan, as    *)
(* long as no callback has overtaken a call.                               *)
ExhaustedIsExhausted ==
    \A l \in Tpls :
        ~overtaken /\ Running(l) /\ pc[l] = "scan" /\ i[l] = TotalPages =>
            \A s \in Pages :
                s + Needed(NumPages[l]) <= TotalPages =>
                    \E p \in Run(s, Needed(NumPages[l])) : p \in bitmap

(* A callback leaves no trace in the code it preempts but the pages it     *)
(* keeps: when it returns, the set bits are those of what the levels below *)
(* own, with what it has passed on to its driver.                          *)
CallbackLeavesNoTrace ==
    [][\A l \in active \ active' :
          ~overtaken' => bitmap' = UNION {Owned(m)' : m \in {k \in Tpls : k < l}}]_vars

-----------------------------------------------------------------------------
(***************************************************************************)
(* The inductive invariant, which holds until a call is overtaken.         *)
(***************************************************************************)

(* A level that is not on the stack is in no call and owns nothing.        *)
StackOK ==
    /\ BaseTpl \in active
    /\ \A l \in Tpls : l \notin active => pc[l] = "idle" /\ held[l] = {}

(* The loop variables of a call stay in the run they work on.              *)
FrameOK(l) ==
    /\ pc[l] = "scan" =>
          /\ RunStart[l] <= i[l]
          /\ RunLen[l] = i[l] - RunStart[l]
          /\ RunLen[l] < Needed(NumPages[l])
    /\ pc[l] \in {"set", "setStore", "clear", "clearStore"} =>
          /\ RunStart[l] <= i[l]
          /\ i[l] <= RunStart[l] + NumPages[l]
          /\ RunStart[l] + NumPages[l] <= TotalPages
    /\ pc[l] \in {"setStore", "clearStore"} =>
          i[l] < RunStart[l] + NumPages[l]

(* Allocations lie in the pool; those of one level, and the call it is in, *)
(* do not meet.                                                            *)
HeldOK(l) ==
    \A a \in held[l] :
        /\ a.start + a.num <= TotalPages
        /\ \A p \in PagesOf(a) : p \notin InFlight(l)
        /\ \A b \in held[l] : a # b => \A p \in PagesOf(a) : p \notin PagesOf(b)

(* What two levels own does not meet.                                      *)
LevelsApart ==
    \A l, m \in Tpls : l # m => \A p \in Owned(l) : p \notin Owned(m)

(* The pages a call has found free and not yet marked.                     *)
Claim(l) ==
    {p \in Pages :
        \/ pc[l] = "scan" /\ RunStart[l] <= p /\ p < i[l]
        \/ pc[l] \in {"set", "setStore"} /\ i[l] <= p /\ p < RunStart[l] + NumPages[l]}

(* A claim may meet what a callback owns that preempted the call, never    *)
(* what this level or a lower one owns: the callback's pages are back      *)
(* before the call goes on.                                                *)
ClaimFree(l) ==
    \A m \in Tpls : m <= l => \A p \in Claim(l) : p \notin Owned(m)

OwnedUpTo(l, p) == \E m \in Tpls : m <= l /\ p \in Owned(m)

(* The byte a preempted read-modify-write holds is the one it will find.   *)
RegisterCurrent(l) ==
    pc[l] \in {"setStore", "clearStore"} =>
        \A p \in Pages :
            p \in byte[l] <=> p \in ByteOf(i[l]) /\ OwnedUpTo(l, p)

(* No run of the length asked for ends before the scan's position.         *)
ScanComplete(l) ==
    pc[l] = "scan" =>
        /\ RunStart[l] > 0 => OwnedUpTo(l, RunStart[l] - 1)
        /\ \A s \in Pages :
              s + Needed(NumPages[l]) <= i[l] =>
                  \E p \in Run(s, Needed(NumPages[l])) : OwnedUpTo(l, p)

LevelOK(l) ==
    /\ FrameOK(l)
    /\ HeldOK(l)
    /\ ClaimFree(l)
    /\ RegisterCurrent(l)
    /\ ScanComplete(l)

(* Preempted calls and the callbacks above them stay out of each other's   *)
(* way: the facts from which exclusive ownership follows.                  *)
NestingInv ==
    /\ TypeOK
    /\ StackOK
    /\ LevelsApart
    /\ \A l \in Tpls : LevelOK(l)
    /\ BitSetMeansAllocated

-----------------------------------------------------------------------------
(* What the callers rely on: the abstract allocator over all levels.       *)
Promise == INSTANCE PageAllocator WITH allocated <- UNION {held[l] : l \in Tpls},
                                       broken <- overtaken

(* The preemptible bitmap allocator implements the abstract allocator, and *)
(* breaks its promise with nothing but an overtaken call.                  *)
ImplementsPageAllocator == Promise!Spec
=============================================================================
