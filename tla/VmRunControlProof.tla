-------------------------- MODULE VmRunControlProof --------------------------
(* Theorems about VmRunControl for any number of vcpus, requests and exits.     *)
EXTENDS VmRunControl, FiniteSetTheorems, WellFoundedInduction, TLAPS

-------------------------------------------------------------------------------
(* Where the control thread is: the step it is at, the message of a kick, and   *)
(* the last step of the request, which tells the requests apart.                *)
At == IF todo = <<>> THEN None ELSE Head(todo).op
Msg == IF todo = <<>> THEN None ELSE Head(todo).msg
Goal == IF todo = <<>> THEN None ELSE todo[Len(todo)].op
Is(op, msg, goal) == At = op /\ Msg = msg /\ Goal = goal

(* What may remain of a request.                                                *)
Stop(goal) == <<Kick("Suspending"), Kick("GetStates"), Op("collect"), Op(goal)>>
Ask(m, goal) == <<Kick(m), Op("collect"), Op(goal)>>
Todos ==
    {<<>>, <<Kick("Suspending")>>, <<Kick("Running")>>, <<Op("collect")>>,
     <<Kick("GetStates"), Op("collect")>>, <<Kick("Suspending"), Kick("GetStates"), Op("collect")>>,
     <<Op("setclock"), Kick("Running")>>, <<Op("wake"), Op("setclock"), Kick("Running")>>,
     <<Op("sleep")>>, <<Kick("Exiting"), Op("join")>>, <<Op("join")>>}
    \cup {Stop(g) : g \in {"suspendvm", "confirm"}}
    \cup {Ask("GetStates", g) : g \in {"suspendvm", "guard", "confirm"}}
    \cup {Ask("Snapshot", "snapshot")}
    \cup {<<Op("collect"), Op(g)>> : g \in {"suspendvm", "guard", "confirm", "snapshot"}}
    \cup {<<Op(g)>> : g \in {"suspendvm", "guard", "confirm", "snapshot"}}

Point ==
    \/ Is(None, None, None)
    \/ At = "kick" /\ Msg = "Suspending" /\ Goal \in {"kick", "collect", "suspendvm", "confirm"}
    \/ At = "kick" /\ Msg = "GetStates" /\ Goal \in {"collect", "suspendvm", "guard", "confirm"}
    \/ Is("kick", "Running", "kick") \/ Is("kick", "Snapshot", "snapshot") \/ Is("kick", "Exiting", "join")
    \/ At = "collect" /\ Msg = None /\ Goal \in {"collect", "suspendvm", "guard", "confirm", "snapshot"}
    \/ Is("suspendvm", None, "suspendvm") \/ Is("guard", None, "guard") \/ Is("confirm", None, "confirm")
    \/ Is("snapshot", None, "snapshot") \/ Is("sleep", None, "sleep") \/ Is("join", None, "join")
    \/ Is("wake", None, "kick") \/ Is("setclock", None, "kick")

-------------------------------------------------------------------------------
(* The inductive invariant. *)

Messages == Modes \cup {"GetStates", "Snapshot"}

TypeOK ==
    /\ pc \in [Vcpus -> {"start", "top", "enter", "guest", "clear", "done"}]
    /\ mode \in [Vcpus -> Modes]
    /\ tube \in [Vcpus -> Seq(Messages)]
    /\ answers \in [Vcpus -> Modes \cup {None}]
    /\ todo \in Todos
    /\ turn \in Vcpus
    /\ sent \in BOOLEAN
    /\ guard \in [held : BOOLEAN, mode : Modes \cup {None, "error"}, woken : BOOLEAN,
              found : {"Wake", "Sleep"}]
    /\ dev \in {"Wake", "Sleep"}
    /\ commanded \in Modes
    /\ exited \in BOOLEAN
    /\ hostWoke \in BOOLEAN

(* The mode a vcpu will be in when it has taken its messages.                   *)
Eff(v) == ModeAfter(mode[v], tube[v])

(* In a kick: this vcpu has been sent the message; some vcpu has.               *)
Reached(v) == v < turn \/ (v = turn /\ sent)
Begun == turn > 1 \/ sent

(* A thread that is on its way into the guest runs, one that was told to exit   *)
(* is gone, and nothing follows the message to exit.                            *)
Threads ==
    \A v \in Vcpus :
        /\ pc[v] \in {"enter", "guest", "clear"} => mode[v] = "Running"
        /\ mode[v] = "Exiting" => pc[v] = "done"
        /\ pc[v] = "done" => exited
        /\ \A i \in DOMAIN tube[v] :
            tube[v][i] = "Exiting" =>
                i = Len(tube[v]) /\ commanded = "Exiting" /\ (At = "kick" => Reached(v))

(* The place of a kick, and the end of the control thread.                      *)
Place ==
    /\ At # "kick" => turn = 1 /\ ~sent
    /\ commanded = "Exiting" => Goal \in {None, "join"}
    /\ At = "join" => commanded = "Exiting"

(* Every vcpu is going to be in the mode commanded last, but for those that a   *)
(* kick has still to reach.                                                     *)
Telling == At = "kick" /\ Msg \in Modes
Told ==
    /\ Telling /\ Begun => commanded = Msg
    /\ \A v \in Vcpus :
        pc[v] = "done" \/ Eff(v) = commanded \/ (Telling /\ Begun /\ ~Reached(v))

(* A vcpu that was asked answers from the end of its messages, with the mode    *)
(* commanded last; one that is suspended stays where it answered.               *)
Asked(v) == At = "collect" \/ (At = "kick" /\ Msg \notin Modes /\ Reached(v))
Stopped(v) == pc[v] = "top" /\ mode[v] = "Suspending" /\ tube[v] = <<>>
Asking(v) == tube[v] # <<>> /\ tube[v][Len(tube[v])] \in {"GetStates", "Snapshot"}
Answers ==
    \A v \in Vcpus :
        Asked(v) =>
            \/ answers[v] = None /\ (pc[v] = "done" \/ Asking(v))
            \/ answers[v] = commanded /\ tube[v] = <<>> /\ (commanded = "Suspending" => Stopped(v))

(* What get_vcpu_state has returned.                                            *)
Collected ==
    At \in {"suspendvm", "guard", "confirm"} =>
        /\ got \in {commanded, "error"}
        /\ got = "error" => exited
        /\ got = "Suspending" => \A v \in Vcpus : Stopped(v)

(* do_snapshot under its guards.                                                *)
Snapshots ==
    /\ At = "sleep" => commanded = "Suspending" /\ \A v \in Vcpus : Stopped(v)
    /\ Goal = "snapshot" =>
        /\ commanded = "Suspending" /\ dev = "Sleep"
        /\ \A v \in Vcpus : pc[v] = "top" /\ mode[v] = "Suspending"

(* While the devices sleep no vcpu runs, is told to, or is going to be told to. *)
Asleep ==
    dev = "Sleep" /\ ~hostWoke =>
        /\ commanded # "Running"
        /\ At # "setclock" /\ Msg # "Running"
        /\ \A v \in Vcpus : pc[v] = "done" \/ (mode[v] # "Running" /\ Eff(v) # "Running")

(* What the guards of do_snapshot are going to restore.                         *)
Guarded ==
    /\ Goal \in {"confirm", "sleep", "snapshot"} => guard.held
    /\ guard.held =>
        /\ guard.mode \in {"Running", "Suspending"}
        /\ Goal \in {None, "join", "confirm", "sleep", "snapshot", "kick"}
        /\ Goal = "kick" => Msg = "Running"
        /\ Goal \in {"confirm", "kick"} => guard.mode = "Running"
        /\ At = None => exited \/ commanded \in {"Exiting", guard.mode}
        /\ Goal # "snapshot" => dev = guard.found
        /\ Goal = "snapshot" => (guard.woken <=> guard.found = "Wake")
        /\ ~hostWoke =>
            /\ Goal \in {"confirm", "kick"} => dev = "Wake"
            /\ Goal = "sleep" /\ guard.mode = "Running" => dev = "Wake"
            /\ Goal = "snapshot" /\ guard.mode = "Running" => guard.woken

IInv == TypeOK /\ Threads /\ Place /\ Told /\ Answers /\ Collected /\ Snapshots /\ Asleep /\ Guarded

-------------------------------------------------------------------------------
(* Sequences given step by step. *)

(* A request of one step.                                                       *)
LEMMA Tuple1 ==
    ASSUME NEW a
    PROVE  /\ <<a>> # <<>> /\ Head(<<a>>) = a /\ Tail(<<a>>) = <<>>
           /\ <<a>>[Len(<<a>>)] = a
  OBVIOUS

(* A request of two steps.                                                      *)
LEMMA Tuple2 ==
    ASSUME NEW a, NEW b
    PROVE  /\ <<a, b>> # <<>> /\ Head(<<a, b>>) = a /\ Tail(<<a, b>>) = <<b>>
           /\ <<a, b>>[Len(<<a, b>>)] = b
  OBVIOUS

(* A request of three steps.                                                    *)
LEMMA Tuple3 ==
    ASSUME NEW a, NEW b, NEW c
    PROVE  /\ <<a, b, c>> # <<>> /\ Head(<<a, b, c>>) = a /\ Tail(<<a, b, c>>) = <<b, c>>
           /\ <<a, b, c>>[Len(<<a, b, c>>)] = c
  OBVIOUS

(* A request of four steps.                                                     *)
LEMMA Tuple4 ==
    ASSUME NEW a, NEW b, NEW c, NEW d
    PROVE  /\ <<a, b, c, d>> # <<>> /\ Head(<<a, b, c, d>>) = a
           /\ Tail(<<a, b, c, d>>) = <<b, c, d>>
           /\ <<a, b, c, d>>[Len(<<a, b, c, d>>)] = d
  OBVIOUS

-------------------------------------------------------------------------------
(* The points of the control thread. *)

(* A step of a request is at one of the points.                                 *)
LEMMA Points ==
    ASSUME todo \in Todos
    PROVE  Point
<1> USE DEF Point, Is, At, Msg, Goal, Op, Kick, None
<1>1. CASE todo = <<>>
  BY <1>1
<1>2. CASE \E a \in {Kick("Suspending"), Kick("Running"), Op("collect"), Op("sleep"), Op("join"),
                     Op("suspendvm"), Op("guard"), Op("confirm"), Op("snapshot")} : todo = <<a>>
  BY <1>2, Tuple1
<1>3. CASE todo \in {<<Kick("GetStates"), Op("collect")>>, <<Op("setclock"), Kick("Running")>>,
                     <<Kick("Exiting"), Op("join")>>}
  BY <1>3, Tuple2
<1>4. CASE \E g \in {"suspendvm", "guard", "confirm", "snapshot"} : todo = <<Op("collect"), Op(g)>>
  BY <1>4, Tuple2
<1>5. CASE todo \in {<<Kick("Suspending"), Kick("GetStates"), Op("collect")>>,
                     <<Op("wake"), Op("setclock"), Kick("Running")>>, Ask("Snapshot", "snapshot")}
  BY <1>5, Tuple3 DEF Ask
<1>6. CASE \E g \in {"suspendvm", "guard", "confirm"} : todo = Ask("GetStates", g)
  BY <1>6, Tuple3 DEF Ask
<1>7. CASE \E g \in {"suspendvm", "confirm"} : todo = Stop(g)
  BY <1>7, Tuple4 DEF Stop
<1> HIDE DEF Point, Is, At, Msg, Goal, Op, Kick, None
<1> QED
  BY <1>1, <1>2, <1>3, <1>4, <1>5, <1>6, <1>7, Zenon DEF Todos

(* The points after the last step of what remains.                              *)
LEMMA Advance ==
    ASSUME todo \in Todos, todo # <<>>, todo' = Tail(todo)
    PROVE  /\ todo' \in Todos
           /\ Msg = "Suspending" /\ Goal = "kick" => Is(None, None, None)'
           /\ Msg = "Suspending" /\ Goal # "kick" => At' = "kick" /\ Msg' = "GetStates" /\ Goal' = Goal
           /\ Msg \in {"GetStates", "Snapshot"} => At' = "collect" /\ Msg' = None /\ Goal' = Goal
           /\ Msg = "Running" => Is(None, None, None)'
           /\ Msg = "Exiting" => Is("join", None, "join")'
           /\ At = "collect" /\ Goal = "collect" => Is(None, None, None)'
           /\ At = "collect" /\ Goal # "collect" => At' = Goal /\ Msg' = None /\ Goal' = Goal
           /\ At = "suspendvm" => Is(None, None, None)'
           /\ At = "wake" => Is("setclock", None, "kick")'
           /\ At = "setclock" => Is("kick", "Running", "kick")'
<1> DEFINE Good(t) == t \in Todos
<1>0. ASSUME NEW g \in {"suspendvm", "guard", "confirm", "snapshot"}
      PROVE  /\ Good(<<Op(g)>>) /\ Good(<<Op("collect"), Op(g)>>)
             /\ g # "snapshot" => Good(<<Kick("GetStates"), Op("collect"), Op(g)>>)
  BY <1>0, Zenon DEF Todos, Ask
<1>00. /\ Good(<<>>) /\ Good(<<Op("collect")>>) /\ Good(<<Kick("Running")>>) /\ Good(<<Op("join")>>)
       /\ Good(<<Kick("GetStates"), Op("collect")>>) /\ Good(<<Op("setclock"), Kick("Running")>>)
  BY Zenon DEF Todos
<1> HIDE DEF Good
<1> USE DEF Is, At, Msg, Goal, Op, Kick, None
<1> DEFINE Goals ==
      /\ Good(todo')
      /\ Msg = "Suspending" /\ Goal = "kick" => Is(None, None, None)'
      /\ Msg = "Suspending" /\ Goal # "kick" => At' = "kick" /\ Msg' = "GetStates" /\ Goal' = Goal
      /\ Msg \in {"GetStates", "Snapshot"} => At' = "collect" /\ Msg' = None /\ Goal' = Goal
      /\ Msg = "Running" => Is(None, None, None)'
      /\ Msg = "Exiting" => Is("join", None, "join")'
      /\ At = "collect" /\ Goal = "collect" => Is(None, None, None)'
      /\ At = "collect" /\ Goal # "collect" => At' = Goal /\ Msg' = None /\ Goal' = Goal
      /\ At = "suspendvm" => Is(None, None, None)'
      /\ At = "wake" => Is("setclock", None, "kick")'
      /\ At = "setclock" => Is("kick", "Running", "kick")'
<1>2. ASSUME NEW a \in {Kick("Suspending"), Kick("Running"), Op("collect"), Op("sleep"), Op("join"),
                     Op("suspendvm"), Op("guard"), Op("confirm"), Op("snapshot")}, todo = <<a>>
      PROVE  Goals
  BY <1>2, <1>00, Tuple1
<1>3. ASSUME todo \in {<<Kick("GetStates"), Op("collect")>>, <<Op("setclock"), Kick("Running")>>,
                      <<Kick("Exiting"), Op("join")>>}
      PROVE  Goals
  <2>1. CASE todo = <<Kick("GetStates"), Op("collect")>>
    BY <2>1, <1>00, Tuple1, Tuple2
  <2>2. CASE todo = <<Op("setclock"), Kick("Running")>>
    BY <2>2, <1>00, Tuple1, Tuple2
  <2>3. CASE todo = <<Kick("Exiting"), Op("join")>>
    BY <2>3, <1>00, Tuple1, Tuple2
  <2> HIDE DEF Goals
  <2> QED
    BY <1>3, <2>1, <2>2, <2>3, Zenon
<1>4. ASSUME NEW g \in {"suspendvm", "guard", "confirm", "snapshot"}, todo = <<Op("collect"), Op(g)>>
      PROVE  Goals
  BY <1>4, <1>0, Tuple1, Tuple2
<1>5. ASSUME todo \in {<<Kick("Suspending"), Kick("GetStates"), Op("collect")>>,
                      <<Op("wake"), Op("setclock"), Kick("Running")>>, Ask("Snapshot", "snapshot")}
      PROVE  Goals
  <2>1. CASE todo = <<Kick("Suspending"), Kick("GetStates"), Op("collect")>>
    BY <2>1, <1>00, Tuple2, Tuple3
  <2>2. CASE todo = <<Op("wake"), Op("setclock"), Kick("Running")>>
    BY <2>2, <1>00, Tuple2, Tuple3
  <2>3. CASE todo = Ask("Snapshot", "snapshot")
    BY <2>3, <1>0, Tuple2, Tuple3 DEF Ask
  <2> HIDE DEF Goals
  <2> QED
    BY <1>5, <2>1, <2>2, <2>3, Zenon
<1>6. ASSUME NEW g \in {"suspendvm", "guard", "confirm"}, todo = Ask("GetStates", g)
      PROVE  Goals
  BY <1>6, <1>0, Tuple2, Tuple3 DEF Ask
<1>7. ASSUME NEW g \in {"suspendvm", "confirm"}, todo = Stop(g)
      PROVE  Goals
  BY <1>7, <1>0, Tuple3, Tuple4 DEF Stop
<1> HIDE DEF Is, At, Msg, Goal, Op, Kick, None, Goals
<1>8. Goals
  BY <1>2, <1>3, <1>4, <1>5, <1>6, <1>7, Zenon DEF Todos
<1> QED
  BY <1>8 DEF Goals, Good

(* The points at which a request begins, or goes on after a decision.           *)
LEMMA Begins ==
    /\ todo' = <<>> => todo' \in Todos /\ Is(None, None, None)'
    /\ todo' = <<Kick("Suspending"), Kick("GetStates"), Op("collect")>> =>
        todo' \in Todos /\ Is("kick", "Suspending", "collect")'
    /\ \A g \in {"suspendvm", "confirm"} :
        todo' = <<Kick("Suspending"), Kick("GetStates"), Op("collect"), Op(g)>> =>
            todo' \in Todos /\ Is("kick", "Suspending", g)'
    /\ todo' = <<Kick("GetStates"), Op("collect"), Op("guard")>> =>
        todo' \in Todos /\ Is("kick", "GetStates", "guard")'
    /\ todo' = <<Op("wake"), Op("setclock"), Kick("Running")>> =>
        todo' \in Todos /\ Is("wake", None, "kick")'
    /\ \A m \in {"Running", "Suspending"} :
        todo' = <<Kick(m)>> => todo' \in Todos /\ Is("kick", m, "kick")'
    /\ todo' = <<Kick("Exiting"), Op("join")>> => todo' \in Todos /\ Is("kick", "Exiting", "join")'
    /\ todo' = <<Op("sleep")>> => todo' \in Todos /\ Is("sleep", None, "sleep")'
    /\ todo' = <<Kick("Snapshot"), Op("collect"), Op("snapshot")>> =>
        todo' \in Todos /\ Is("kick", "Snapshot", "snapshot")'
<1> USE DEF Is, At, Msg, Goal, Op, Kick, None
<1>1. todo' = <<>> => Is(None, None, None)'
  OBVIOUS
<1>2. \A m \in {"Running", "Suspending"} : todo' = <<Kick(m)>> => Is("kick", m, "kick")'
  BY Tuple1
<1>3. todo' = <<Op("sleep")>> => Is("sleep", None, "sleep")'
  BY Tuple1
<1>4. todo' = <<Kick("Exiting"), Op("join")>> => Is("kick", "Exiting", "join")'
  BY Tuple2
<1>5. todo' = <<Kick("Suspending"), Kick("GetStates"), Op("collect")>> =>
        Is("kick", "Suspending", "collect")'
  BY Tuple3
<1>6. todo' = <<Kick("GetStates"), Op("collect"), Op("guard")>> => Is("kick", "GetStates", "guard")'
  BY Tuple3
<1>7. todo' = <<Kick("Snapshot"), Op("collect"), Op("snapshot")>> =>
        Is("kick", "Snapshot", "snapshot")'
  BY Tuple3
<1>8. todo' = <<Op("wake"), Op("setclock"), Kick("Running")>> => Is("wake", None, "kick")'
  BY Tuple3
<1>9. \A g \in {"suspendvm", "confirm"} :
        todo' = <<Kick("Suspending"), Kick("GetStates"), Op("collect"), Op(g)>> =>
            Is("kick", "Suspending", g)'
  BY Tuple4
<1> HIDE DEF Is, At, Msg, Goal, Op, Kick, None
<1> QED
  BY <1>1, <1>2, <1>3, <1>4, <1>5, <1>6, <1>7, <1>8, <1>9, ZenonT(30) DEF Todos, Stop, Ask

(* Next1 is about the point.                                                    *)
LEMMA NextPoint ==
    ASSUME NEW name, name # None
    PROVE  /\ Next1(name) <=> At = name
           /\ Next1(name) => todo # <<>> /\ Head(todo).msg = Msg
  BY DEF Next1, At, Msg

-------------------------------------------------------------------------------
(* The messages of a vcpu. *)

(* A nonempty set of positions has a last one, which Max returns.               *)
LEMMA MaxOf ==
    ASSUME NEW n \in Nat, NEW S \in SUBSET (1 .. n), S # {}
    PROVE  Max(S) \in S /\ \A y \in S : y <= Max(S)
<1> DEFINE T == {n - x : x \in S}
<1>1. T \in SUBSET Nat /\ T # {}
  OBVIOUS
<1>2. PICK k \in T : \A y \in T : ~(<<y, k>> \in OpToRel(<, Nat))
  BY <1>1, WFMin, NatLessThanWellFounded
<1>3. \A y \in T : ~(y < k)
  BY Zenon, <1>1, <1>2 DEF OpToRel
<1>4. PICK x \in S : k = n - x
  BY <1>2
<1>5. \A y \in S : x >= y
  BY <1>3, <1>4
<1> HIDE DEF T
<1>6. Max(S) \in S /\ \A y \in S : Max(S) >= y
  BY <1>5, Zenon DEF Max
<1> QED
  BY <1>6

(* The last position of a set is the one that no other exceeds.                 *)
LEMMA MaxIs ==
    ASSUME NEW n \in Nat, NEW S \in SUBSET (1 .. n), NEW x \in S, \A y \in S : y <= x
    PROVE  Max(S) = x
<1>1. Max(S) \in S /\ \A y \in S : y <= Max(S)
  BY Zenon, MaxOf
<1>2. x <= Max(S) /\ Max(S) <= x
  BY <1>1, Zenon
<1>3. \A y \in S : y \in Int
  OBVIOUS
<1>4. x \in Int /\ Max(S) \in Int
  BY <1>1, <1>3, Zenon
<1> QED
  BY <1>2, <1>4

(* What a vcpu's messages leave it in is a run mode.                            *)
LEMMA ModeType ==
    ASSUME NEW now \in Modes, NEW msgs \in Seq(Messages)
    PROVE  ModeAfter(now, msgs) \in Modes
<1>1. CASE RunStates(msgs) = {}
  BY <1>1 DEF ModeAfter
<1>2. CASE RunStates(msgs) # {}
  <2>1. RunStates(msgs) \in SUBSET (1 .. Len(msgs)) /\ Len(msgs) \in Nat
    BY DEF RunStates
  <2>2. Max(RunStates(msgs)) \in RunStates(msgs)
    BY Zenon, <1>2, <2>1, MaxOf
  <2> QED
    BY <1>2, <2>2 DEF ModeAfter, RunStates
<1> QED
  BY <1>1, <1>2

(* A vcpu without messages keeps its mode.                                      *)
LEMMA ModeOfNone ==
    ASSUME NEW now
    PROVE  ModeAfter(now, <<>>) = now
<1>1. RunStates(<<>>) = {}
  BY DEF RunStates
<1> QED
  BY <1>1 DEF ModeAfter

(* One more message: a run state is the mode afterwards, a question changes     *)
(* nothing.                                                                     *)
LEMMA ModeOfAppend ==
    ASSUME NEW now \in Modes, NEW msgs \in Seq(Messages), NEW m \in Messages
    PROVE  ModeAfter(now, Append(msgs, m)) = IF m \in Modes THEN m ELSE ModeAfter(now, msgs)
<1> DEFINE more == Append(msgs, m)  n == Len(msgs)
<1>1. /\ n \in Nat /\ DOMAIN msgs = 1 .. n /\ DOMAIN more = 1 .. n + 1
      /\ more[n + 1] = m /\ \A i \in 1 .. n : more[i] = msgs[i]
  OBVIOUS
<1> HIDE DEF more, n
<1>2. CASE m \in Modes
  <2>1. n + 1 \in RunStates(more) /\ RunStates(more) \in SUBSET (1 .. n + 1)
    BY <1>1, <1>2 DEF RunStates
  <2>2. \A y \in RunStates(more) : y <= n + 1
    BY <1>1, <2>1
  <2>3. n + 1 \in Nat
    BY <1>1
  <2>4. Max(RunStates(more)) = n + 1
    BY Zenon, <2>1, <2>2, <2>3, MaxIs
  <2> QED
    BY <1>1, <1>2, <2>1, <2>4 DEF ModeAfter, more
<1>3. CASE m \notin Modes
  <2>1. RunStates(more) = RunStates(msgs)
    BY <1>1, <1>3 DEF RunStates
  <2>2. CASE RunStates(msgs) = {}
    BY <1>3, <2>1, <2>2 DEF ModeAfter, more
  <2>3. CASE RunStates(msgs) # {}
    <3>1. RunStates(msgs) \in SUBSET (1 .. n)
      BY <1>1 DEF RunStates
    <3>2. Max(RunStates(msgs)) \in 1 .. n
      BY Zenon, <1>1, <2>3, <3>1, MaxOf
    <3> QED
      BY <1>1, <1>3, <2>1, <2>3, <3>2 DEF ModeAfter, more
  <2> QED
    BY <2>2, <2>3
<1> QED
  BY <1>2, <1>3

(* A batch in which nothing follows the message to exit is taken as a whole.    *)
LEMMA WholeBatch ==
    ASSUME NEW msgs \in Seq(Messages),
           \A i \in DOMAIN msgs : msgs[i] = "Exiting" => i = Len(msgs)
    PROVE  UpToExit(msgs) = msgs
<1>1. CASE Exits(msgs) = {}
  BY <1>1 DEF UpToExit
<1>2. CASE Exits(msgs) # {}
  <2>1. Exits(msgs) = {Len(msgs)} /\ Len(msgs) \in Nat
    BY <1>2 DEF Exits
  <2>2. Min(Exits(msgs)) = Len(msgs)
    BY <2>1 DEF Min
  <2>3. SubSeq(msgs, 1, Len(msgs)) = msgs
    OBVIOUS
  <2> QED
    BY <1>2, <2>2, <2>3 DEF UpToExit
<1> QED
  BY <1>1, <1>2

(* The answer of a vcpu whose messages end with the question.                   *)
LEMMA AnswerLast ==
    ASSUME NEW v \in Vcpus, NEW msgs \in Seq(Messages), msgs # <<>>,
           msgs[Len(msgs)] \in {"GetStates", "Snapshot"}
    PROVE  Answered(v, msgs) = ModeAfter(mode[v], msgs)
<1>1. Len(msgs) \in Asks(msgs) /\ Asks(msgs) \in SUBSET (1 .. Len(msgs)) /\ Len(msgs) \in Nat
  BY DEF Asks
<1>2. \A y \in Asks(msgs) : y <= Len(msgs)
  BY <1>1
<1>3. Max(Asks(msgs)) = Len(msgs)
  BY Zenon, <1>1, <1>2, MaxIs
<1>4. SubSeq(msgs, 1, Len(msgs)) = msgs
  OBVIOUS
<1> QED
  BY Zenon, <1>1, <1>3, <1>4 DEF Answered

(* An answer to get_vcpu_state is a run mode, or none yet.                      *)
LEMMA AnswerType ==
    ASSUME TypeOK, NEW v \in Vcpus, NEW msgs \in Seq(Messages)
    PROVE  Answered(v, msgs) \in Modes \cup {None}
<1>1. CASE Asks(msgs) = {}
  BY <1>1 DEF Answered, TypeOK
<1>2. CASE Asks(msgs) # {}
  <2>1. Asks(msgs) \in SUBSET (1 .. Len(msgs)) /\ Len(msgs) \in Nat
    BY DEF Asks
  <2>2. Max(Asks(msgs)) \in 1 .. Len(msgs)
    BY Zenon, <1>2, <2>1, MaxOf
  <2>3. SubSeq(msgs, 1, Max(Asks(msgs))) \in Seq(Messages)
    BY <2>2
  <2>4. mode[v] \in Modes
    BY DEF TypeOK
  <2> QED
    BY Zenon, <1>2, <2>3, <2>4, ModeType DEF Answered
<1> QED
  BY <1>1, <1>2

-------------------------------------------------------------------------------
(* The steps keep the inductive invariant. *)

(* When the threads start, with devices awake or suspended with them: no        *)
(* message, no request.                                                         *)
LEMMA InitInv == Init => IInv
<1> SUFFICES ASSUME Init PROVE IInv
  OBVIOUS
<1>1. todo = <<>> /\ At = None /\ Msg = None /\ Goal = None
  BY DEF Init, At, Msg, Goal
<1>2. TypeOK
  <2>1. todo \in Todos
    BY <1>1, Zenon DEF Todos
  <2>2. 1 \in Vcpus /\ <<>> \in Seq(Messages)
    BY ParametersOK DEF Vcpus
  <2> QED
    BY Zenon, <2>1, <2>2 DEF Init, TypeOK, Modes, NoGuard
<1>3. \A v \in Vcpus : Eff(v) = commanded /\ mode[v] = commanded
  BY ModeOfNone DEF Init, Eff
<1>4. Threads /\ Place
  BY <1>1 DEF Init, Threads, Place, None
<1>5. Told /\ Answers
  BY <1>1, <1>3 DEF Init, Told, Answers, Telling, Asked, None
<1>6. Collected /\ Snapshots /\ Asleep /\ Guarded
  BY <1>1, <1>3 DEF Init, Collected, Snapshots, Asleep, Guarded, None, NoGuard
<1> QED
  BY <1>2, <1>4, <1>5, <1>6 DEF IInv

(* What the vcpu threads do besides moving, taking messages and ending leaves   *)
(* everything the invariant speaks of as it is.                                 *)
LEMMA StutterInv ==
    ASSUME IInv, UNCHANGED <<pc, mode, tube, mainVars, exited, hostWoke>>
    PROVE  IInv'
<1> USE DEF mainVars, place
<1>1. At' = At /\ Msg' = Msg /\ Goal' = Goal
  BY DEF At, Msg, Goal
<1>2. \A u \in Vcpus :
        /\ Eff(u)' = Eff(u) /\ Reached(u)' = Reached(u) /\ Asked(u)' = Asked(u)
        /\ Asking(u)' = Asking(u) /\ Stopped(u)' = Stopped(u)
  BY <1>1 DEF Eff, Reached, Asked, Asking, Stopped
<1>3. TypeOK'
  BY Zenon DEF IInv, TypeOK
<1>4. Threads' /\ Place'
  BY Zenon, <1>1, <1>2 DEF IInv, Threads, Place
<1>5. Told' /\ Answers'
  BY <1>1, <1>2 DEF IInv, Told, Telling, Begun, Answers
<1>6. Collected' /\ Snapshots' /\ Asleep'
  BY <1>1, <1>2 DEF IInv, Collected, Snapshots, Asleep
<1>7. Guarded'
  BY <1>1 DEF IInv, Guarded
<1> QED
  BY <1>3, <1>4, <1>5, <1>6, <1>7 DEF IInv

(* A vcpu thread that takes no message: it goes on towards the guest while it   *)
(* runs, or stays where it is.                                                  *)
LEMMA MovesInv ==
    ASSUME IInv, NEW v \in Vcpus, NEW to \in {"top", "enter", "guest", "clear"},
           pc' = [pc EXCEPT ![v] = to],
           pc[v] # "done",
           to # pc[v] => mode[v] = "Running" \/ (pc[v] = "start" /\ to = "top"),
           UNCHANGED <<mode, tube, mainVars, exited, hostWoke>>
    PROVE  IInv'
<1> USE DEF mainVars, place
<1>1. At' = At /\ Msg' = Msg /\ Goal' = Goal
  BY DEF At, Msg, Goal
<1>2. TypeOK'
  BY DEF IInv, TypeOK
<1>3. \A u \in Vcpus :
        /\ pc'[u] = IF u = v THEN to ELSE pc[u]
        /\ mode'[u] = mode[u] /\ tube'[u] = tube[u] /\ Eff(u)' = Eff(u)
        /\ Reached(u)' = Reached(u) /\ Asked(u)' = Asked(u) /\ Asking(u)' = Asking(u)
        /\ Stopped(u) => Stopped(u)'
  BY Zenon, <1>1 DEF IInv, TypeOK, Eff, Reached, Asked, Asking, Stopped
<1>4. Threads'
  BY <1>1, <1>3 DEF IInv, Threads
<1>5. Place'
  BY <1>1 DEF IInv, Place
<1>6. Told'
  BY Zenon, <1>1, <1>3 DEF IInv, Told, Telling, Begun
<1>7. Answers'
  BY Zenon, <1>3 DEF IInv, Answers
<1>8. Collected'
  BY Zenon, <1>1, <1>3 DEF IInv, Collected
<1>9. Snapshots'
  BY <1>1, <1>3 DEF IInv, Snapshots
<1>10. Asleep'
  BY <1>1, <1>3 DEF IInv, Asleep
<1>11. Guarded'
  BY <1>1 DEF IInv, Guarded
<1> QED
  BY Zenon, <1>2, <1>4, <1>5, <1>6, <1>7, <1>8, <1>9, <1>10, <1>11 DEF IInv

(* The guest ends the machine: the thread leaves from the guest.                *)
LEMMA SystemEventInv ==
    ASSUME IInv, NEW v \in Vcpus, SystemEvent(v)
    PROVE  IInv'
<1> USE DEF mainVars, place, faults, SystemEvent, Leave
<1>1. At' = At /\ Msg' = Msg /\ Goal' = Goal
  BY DEF At, Msg, Goal
<1>2. TypeOK'
  BY DEF IInv, TypeOK
<1>3. /\ pc[v] = "guest" /\ pc'[v] = "done" /\ mode[v] = "Running" /\ tube'[v] = <<>> /\ exited'
      /\ \A u \in Vcpus :
            /\ mode'[u] = mode[u] /\ Reached(u)' = Reached(u) /\ Asked(u)' = Asked(u)
            /\ u # v => /\ pc'[u] = pc[u] /\ tube'[u] = tube[u] /\ Eff(u)' = Eff(u)
                        /\ Asking(u)' = Asking(u) /\ Stopped(u)' = Stopped(u)
            /\ Stopped(u) => u # v
  BY Zenon, <1>1 DEF IInv, TypeOK, Threads, Eff, Reached, Asked, Asking, Stopped
<1>4. Threads'
  BY <1>1, <1>3 DEF IInv, Threads
<1>5. Place'
  BY Zenon, <1>1 DEF IInv, Place
<1>6. Told'
  BY Zenon, <1>1, <1>3 DEF IInv, Told, Telling, Begun
<1>7. Answers'
  BY <1>3 DEF IInv, Answers
<1>8. Collected'
  BY <1>1, <1>3 DEF IInv, Collected
<1>9. Snapshots'
  BY Zenon, <1>1, <1>3 DEF IInv, Snapshots
<1>10. Asleep'
  BY Zenon, <1>1, <1>3 DEF IInv, Asleep
<1>11. Guarded'
  BY <1>1, <1>3 DEF IInv, Guarded
<1> QED
  BY Zenon, <1>2, <1>4, <1>5, <1>6, <1>7, <1>8, <1>9, <1>10, <1>11 DEF IInv

(* The message loop: the thread takes all its messages.                         *)
LEMMA StateLoopInv ==
    ASSUME IInv, NEW v \in Vcpus, StateLoop(v)
    PROVE  IInv'
<1> DEFINE now == Eff(v)
<1> USE DEF place, faults
<1>0. TypeOK /\ Threads /\ Place /\ Told /\ Answers /\ Collected /\ Snapshots /\ Asleep /\ Guarded
  BY Zenon DEF IInv
<1>1. At' = At /\ Msg' = Msg /\ Goal' = Goal
  BY DEF At, Msg, Goal, StateLoop
<1>2. tube[v] \in Seq(Messages) /\ mode[v] \in Modes
  BY <1>0 DEF TypeOK
<1>3. UpToExit(tube[v]) = tube[v]
  BY <1>0, <1>2, WholeBatch DEF Threads
<1>4. now \in Modes /\ Answered(v, tube[v]) \in Modes \cup {None}
  BY <1>0, <1>2, ModeType, AnswerType DEF Eff
<1>5. /\ pc[v] = "top" /\ (tube[v] # <<>> \/ mode[v] = "Running")
      /\ mode' = [mode EXCEPT ![v] = now]
      /\ answers' = [answers EXCEPT ![v] = Answered(v, tube[v])]
      /\ tube' = [tube EXCEPT ![v] = <<>>]
      /\ pc' = [pc EXCEPT ![v] = IF now = "Exiting" THEN "done"
                                 ELSE IF now = "Running" THEN "enter" ELSE "top"]
      /\ exited' = (exited \/ now = "Exiting")
      /\ UNCHANGED <<todo, turn, sent, got, guard, dev, commanded, hostWoke>>
  BY Zenon, <1>0, <1>3 DEF StateLoop, Leave, Eff, TypeOK
<1> HIDE DEF now
<1>6. TypeOK'
  BY <1>0, <1>4, <1>5 DEF TypeOK
<1>7. /\ mode'[v] = now /\ answers'[v] = Answered(v, tube[v]) /\ tube'[v] = <<>> /\ Eff(v)' = now
      /\ pc'[v] = IF now = "Exiting" THEN "done" ELSE IF now = "Running" THEN "enter" ELSE "top"
  BY Zenon, <1>0, <1>5, ModeOfNone DEF TypeOK, Eff
<1>8. \A u \in Vcpus :
        /\ Reached(u)' = Reached(u) /\ Asked(u)' = Asked(u)
        /\ u # v => /\ pc'[u] = pc[u] /\ mode'[u] = mode[u] /\ tube'[u] = tube[u]
                    /\ answers'[u] = answers[u] /\ Eff(u)' = Eff(u)
                    /\ Asking(u)' = Asking(u) /\ Stopped(u)' = Stopped(u)
        /\ Stopped(u) => u # v
  BY <1>0, <1>1, <1>5 DEF TypeOK, Eff, Reached, Asked, Asking, Stopped
<1>9. Threads'
  <2>1. /\ pc'[v] \in {"enter", "guest", "clear"} => mode'[v] = "Running"
        /\ mode'[v] = "Exiting" => pc'[v] = "done"
        /\ pc'[v] = "done" => now = "Exiting"
        /\ DOMAIN tube'[v] = {}
    BY <1>7
  <2>2. exited \/ now = "Exiting" => exited'
    BY <1>5, Zenon
  <2>3. commanded' = commanded
    BY Zenon, <1>5
  <2>4. ASSUME NEW u \in Vcpus, u # v
        PROVE  /\ pc'[u] \in {"enter", "guest", "clear"} => mode'[u] = "Running"
               /\ mode'[u] = "Exiting" => pc'[u] = "done"
               /\ pc'[u] = "done" => exited'
               /\ \A i \in DOMAIN tube'[u] :
                    tube'[u][i] = "Exiting" =>
                        i = Len(tube'[u]) /\ commanded' = "Exiting" /\ (At' = "kick" => Reached(u)')
    BY <1>0, <1>1, <1>8, <2>2, <2>3, <2>4 DEF Threads
  <2> QED
    BY <2>1, <2>2, <2>4, Zenon DEF Threads
<1>10. Place'
  BY Zenon, <1>0, <1>1, <1>5 DEF Place
<1>11. Told'
  BY Zenon, <1>0, <1>1, <1>5, <1>7, <1>8 DEF Told, Telling, Begun, now
<1>12. Answers'
  <2>1. ASSUME Asked(v)
        PROVE  answers'[v] = commanded /\ (commanded = "Suspending" => Stopped(v)')
    <3>1. now = commanded
      BY <1>0, <1>5, <2>1 DEF Told, Telling, Asked, now
    <3>2. commanded = "Suspending" => Stopped(v)'
      BY <1>7, <3>1 DEF Stopped
    <3>3. CASE Asking(v)
      <4>1. Answered(v, tube[v]) = now
        BY Zenon, <1>2, <3>3, AnswerLast DEF Asking, now, Eff
      <4> QED
        BY <1>7, <3>1, <3>2, <4>1
    <3>4. CASE ~Asking(v)
      <4>1. answers[v] = commanded /\ tube[v] = <<>>
        BY <1>0, <1>5, <2>1, <3>4 DEF Answers
      <4>2. Asks(tube[v]) = {}
        BY <4>1 DEF Asks
      <4> QED
        BY Zenon, <1>7, <3>2, <4>1, <4>2 DEF Answered
    <3> QED
      BY <3>3, <3>4
  <2> QED
    BY Zenon, <1>0, <1>5, <1>7, <1>8, <2>1 DEF Answers
<1>13. Collected'
  BY Zenon, <1>0, <1>1, <1>5, <1>8 DEF Collected
<1>14. Snapshots'
  <2>1. ASSUME Goal = "snapshot" PROVE now = "Suspending"
    BY Zenon, <1>0, <1>5, <2>1, Points DEF TypeOK, Told, Telling, Snapshots, Point, Is, Modes, None, now
  <2> QED
    BY <1>0, <1>1, <1>5, <1>7, <1>8, <2>1 DEF Snapshots
<1>15. Asleep'
  BY <1>0, <1>1, <1>5, <1>7, <1>8 DEF Asleep, now
<1>16. Guarded'
  BY Zenon, <1>0, <1>1, <1>5 DEF Guarded
<1> QED
  BY Zenon, <1>6, <1>9, <1>10, <1>11, <1>12, <1>13, <1>14, <1>15, <1>16 DEF IInv

(* kick_all_vcpus sends the message to one vcpu.                                *)
LEMMA SendInv ==
    ASSUME IInv, Send
    PROVE  IInv'
<1> DEFINE m == Msg
<1> USE DEF faults
<1>0. TypeOK /\ Threads /\ Place /\ Told /\ Answers /\ Collected /\ Snapshots /\ Asleep /\ Guarded
  BY DEF IInv
<1>1. At' = At /\ Msg' = Msg /\ Goal' = Goal
  BY DEF At, Msg, Goal, Send
<1>2. At = "kick" /\ Head(todo).msg = m /\ ~sent /\ sent'
  BY NextPoint DEF Send, None
<1>3. Point
  BY <1>0, Points DEF TypeOK
<1>4. m \in Messages
  BY <1>2, <1>3 DEF Point, Is, Messages, Modes, None
<1>5. /\ tube' = [tube EXCEPT ![turn] = IF pc[turn] = "done" THEN @ ELSE Append(@, m)]
      /\ commanded' = IF m \in Modes THEN m ELSE commanded
      /\ answers' = [answers EXCEPT ![turn] = IF m \in Modes THEN @ ELSE None]
      /\ UNCHANGED <<pc, mode, todo, turn, got, guard, dev, exited, hostWoke>>
  BY Zenon, <1>2 DEF Send
<1>6. /\ turn \in Vcpus /\ tube[turn] \in Seq(Messages) /\ mode[turn] \in Modes
  BY Zenon, <1>0 DEF TypeOK
<1> HIDE DEF m
<1>7. TypeOK'
  BY <1>0, <1>2, <1>4, <1>5, <1>6 DEF TypeOK
<1>8. /\ pc[turn] # "done" => Eff(turn)' = IF m \in Modes THEN m ELSE Eff(turn)
      /\ Reached(turn)' /\ ~Reached(turn) /\ Begun'
      /\ answers'[turn] = IF m \in Modes THEN answers[turn] ELSE None
  <2>1. pc[turn] # "done" => tube'[turn] = Append(tube[turn], m) /\ mode'[turn] = mode[turn]
    BY Zenon, <1>0, <1>5, <1>6 DEF TypeOK
  <2>2. pc[turn] # "done" => Eff(turn)' = IF m \in Modes THEN m ELSE Eff(turn)
    BY <1>4, <1>5, <1>6, <2>1, ModeOfAppend DEF Eff
  <2>3. Reached(turn)' /\ ~Reached(turn) /\ Begun'
    BY <1>2, <1>5, <1>6 DEF Reached, Begun, Vcpus
  <2> QED
    BY Zenon, <1>0, <1>5, <1>6, <2>2, <2>3 DEF TypeOK
<1>9. \A u \in Vcpus : u # turn =>
        /\ tube'[u] = tube[u] /\ answers'[u] = answers[u] /\ Eff(u)' = Eff(u)
        /\ Reached(u)' = Reached(u) /\ Asking(u)' = Asking(u) /\ Stopped(u)' = Stopped(u)
        /\ Reached(u) => Begun
  BY <1>0, <1>2, <1>5, <1>6, ParametersOK DEF TypeOK, Eff, Reached, Begun, Asking, Stopped, Vcpus
<1>10. Threads'
  <2>1. ASSUME NEW i \in DOMAIN tube[turn] PROVE tube[turn][i] # "Exiting"
    BY Zenon, <1>0, <1>2, <1>6, <1>8 DEF Threads
  <2>2. ASSUME NEW i \in DOMAIN tube'[turn], tube'[turn][i] = "Exiting"
        PROVE  i = Len(tube'[turn]) /\ commanded' = "Exiting"
    BY <1>0, <1>4, <1>5, <1>6, <2>1, <2>2 DEF TypeOK, Modes
  <2>3. ASSUME NEW u \in Vcpus, u # turn, NEW i \in DOMAIN tube[u], tube[u][i] = "Exiting"
        PROVE  commanded' = "Exiting"
    BY Zenon, <1>0, <1>2, <1>5, <1>9, <2>3 DEF Threads, Told, Telling, m
  <2> QED
    BY <1>0, <1>1, <1>2, <1>5, <1>6, <1>8, <1>9, <2>2, <2>3 DEF Threads
<1>11. Place'
  BY Zenon, <1>0, <1>1, <1>2, <1>3, <1>5 DEF Place, Point, Is, Modes, None, m
<1>12. Told'
  <2>1. Telling' = (m \in Modes)
    BY <1>1, <1>2 DEF Telling, m
  <2>2. CASE m \in Modes
    <3>1. ASSUME NEW u \in Vcpus, u # turn, Reached(u) PROVE pc[u] = "done" \/ Eff(u) = m
      BY Zenon, <1>0, <1>2, <1>9, <2>2, <3>1 DEF Told, Telling, m
    <3> QED
      BY Zenon, <1>1, <1>5, <1>8, <1>9, <2>1, <2>2, <3>1 DEF Told, m
  <2>3. CASE m \notin Modes
    BY Zenon, <1>0, <1>5, <1>8, <1>9, <2>1, <2>3 DEF Told, Telling, m
  <2> QED
    BY <2>2, <2>3
<1>13. Answers'
  <2>1. CASE m \in Modes
    BY Zenon, <1>1, <1>2, <2>1 DEF Answers, Asked, m
  <2>2. CASE m \notin Modes
    <3>1. pc[turn] = "done" \/ Asking(turn)'
      <4>1. pc[turn] # "done" => tube'[turn] = Append(tube[turn], m)
        BY <1>0, <1>5, <1>6 DEF TypeOK
      <4>2. LET more == Append(tube[turn], m) IN more # <<>> /\ more[Len(more)] = m
        BY <1>4, <1>6
      <4>3. m \in {"GetStates", "Snapshot"}
        BY Zenon, <1>4, <2>2 DEF Messages
      <4> QED
        BY Zenon, <1>5, <4>1, <4>2, <4>3 DEF Asking
    <3>2. \A u \in Vcpus : u # turn => Asked(u)' = Asked(u)
      BY <1>1, <1>2, <1>9 DEF Asked
    <3> QED
      BY Zenon, <1>0, <1>5, <1>8, <1>9, <2>2, <3>1, <3>2 DEF Answers
  <2> QED
    BY <2>1, <2>2
<1>14. Collected'
  BY Zenon, <1>1, <1>2 DEF Collected
<1>15. Snapshots'
  BY Zenon, <1>0, <1>1, <1>2, <1>3, <1>5 DEF Snapshots, Point, Is, Modes, None, m
<1>16. Asleep'
  BY Zenon, <1>0, <1>1, <1>5, <1>6, <1>8, <1>9 DEF Asleep, m
<1>17. Guarded'
  BY Zenon, <1>0, <1>1, <1>2, <1>5 DEF Guarded, None
<1> QED
  BY Zenon, <1>7, <1>10, <1>11, <1>12, <1>13, <1>14, <1>15, <1>16, <1>17 DEF IInv

(* handle.kill and on to the next vcpu, or the end of the kick.                 *)
LEMMA KillInv ==
    ASSUME IInv, Kill
    PROVE  IInv'
<1> USE DEF faults
<1>0. TypeOK /\ Threads /\ Place /\ Told /\ Answers /\ Collected /\ Snapshots /\ Asleep /\ Guarded
  BY DEF IInv
<1>1. At = "kick" /\ todo # <<>> /\ sent /\ sent' = FALSE /\ Begun
  BY Zenon, NextPoint DEF Kill, None, Begun
<1>2. UNCHANGED <<pc, mode, tube, answers, got, guard, dev, commanded, exited, hostWoke>>
  BY Zenon DEF Kill
<1>3. Point
  BY <1>0, Points DEF TypeOK
<1>4. turn \in Vcpus /\ turn \in 1 .. NumVcpus /\ NumVcpus \in Nat
  BY Zenon, <1>0, ParametersOK DEF TypeOK, Vcpus
<1>5. \A u \in Vcpus : Eff(u)' = Eff(u) /\ Asking(u)' = Asking(u) /\ Stopped(u)' = Stopped(u)
  BY <1>2 DEF Eff, Asking, Stopped
<1>6. CASE turn < NumVcpus
  <2>1. turn' = turn + 1 /\ todo' = todo
    BY <1>6 DEF Kill
  <2>2. At' = At /\ Msg' = Msg /\ Goal' = Goal
    BY <2>1 DEF At, Msg, Goal
  <2>3. TypeOK'
    <3>1. turn' \in Vcpus /\ todo' \in Todos
      BY <1>0, <1>4, <1>6, <2>1 DEF TypeOK, Vcpus
    <3> QED
      BY <1>0, <1>1, <1>2, <3>1, Zenon DEF TypeOK
  <2>4. Begun' /\ \A u \in Vcpus : Reached(u)' = Reached(u) /\ Asked(u)' = Asked(u)
    BY <1>1, <1>4, <2>1, <2>2 DEF Begun, Reached, Asked, Vcpus
  <2>5. Threads' /\ Place'
    BY Zenon, <1>0, <1>1, <1>2, <2>2, <2>4 DEF Threads, Place
  <2>6. Told'
    BY Zenon, <1>0, <1>1, <1>2, <1>5, <2>2, <2>4 DEF Told, Telling
  <2>7. Answers'
    BY Zenon, <1>0, <1>2, <1>5, <2>4 DEF Answers
  <2>8. Collected' /\ Snapshots'
    BY Zenon, <1>0, <1>1, <1>2, <1>5, <2>2 DEF Collected, Snapshots
  <2>9. Asleep'
    BY Zenon, <1>0, <1>2, <1>5, <2>2 DEF Asleep
  <2>10. Guarded'
    BY Zenon, <1>0, <1>2, <2>2 DEF Guarded
  <2> QED
    BY <2>3, <2>5, <2>6, <2>7, <2>8, <2>9, <2>10 DEF IInv
<1>7. CASE ~(turn < NumVcpus)
  <2>1. turn' = 1 /\ todo' = Tail(todo) /\ turn = NumVcpus
    BY <1>4, <1>7 DEF Kill
  <2>2. /\ todo' \in Todos
        /\ Msg = "Suspending" /\ Goal = "kick" => Is(None, None, None)'
        /\ Msg = "Suspending" /\ Goal # "kick" => At' = "kick" /\ Msg' = "GetStates" /\ Goal' = Goal
        /\ Msg \in {"GetStates", "Snapshot"} => At' = "collect" /\ Msg' = None /\ Goal' = Goal
        /\ Msg = "Running" => Is(None, None, None)'
        /\ Msg = "Exiting" => Is("join", None, "join")'
    BY <1>0, <1>1, <2>1, Advance DEF TypeOK
  <2>3. TypeOK'
    <3>1. turn' \in Vcpus
      BY <1>4, <2>1 DEF Vcpus
    <3> QED
      BY <1>0, <1>1, <1>2, <2>2, <3>1, Zenon DEF TypeOK
  <2>4. ~Begun' /\ \A u \in Vcpus : Reached(u) /\ ~Reached(u)'
    BY <1>1, <1>4, <2>1 DEF Begun, Reached, Vcpus
  <2>5. Msg \in Modes => commanded = Msg
    BY Zenon, <1>0, <1>1 DEF Told, Telling
  <2> USE DEF Is, Modes, None
  <2>6. Threads'
    <3>1. commanded = "Exiting" => At' # "kick"
      BY Zenon, <1>0, <1>1, <1>3, <2>2 DEF Place, Point
    <3> QED
      BY Zenon, <1>0, <1>2, <2>4, <3>1 DEF Threads
  <2>7. Place'
    BY Zenon, <1>0, <1>1, <1>2, <1>3, <2>1, <2>2, <2>5 DEF Place, Point
  <2>8. Told'
    BY Zenon, <1>0, <1>2, <1>5, <2>4 DEF Told
  <2>9. Answers'
    <3>1. ASSUME NEW u \in Vcpus, Asked(u)' PROVE Asked(u)
      BY Zenon, <1>1, <1>3, <2>2, <2>4, <3>1 DEF Asked, Point
    <3> QED
      BY Zenon, <1>0, <1>2, <1>5, <3>1 DEF Answers
  <2>10. Collected'
    BY Zenon, <1>1, <1>3, <2>2 DEF Collected, Point
  <2>11. Snapshots'
    BY Zenon, <1>0, <1>1, <1>2, <1>3, <1>5, <2>2 DEF Snapshots, Point
  <2>12. Asleep'
    BY Zenon, <1>0, <1>1, <1>2, <1>3, <1>5, <2>2 DEF Asleep, Point
  <2>13. Guarded'
    BY Zenon, <1>0, <1>1, <1>2, <1>3, <2>2, <2>5 DEF Guarded, Point
  <2> QED
    BY <2>3, <2>6, <2>7, <2>8, <2>9, <2>10, <2>11, <2>12, <2>13 DEF IInv
<1> QED
  BY Zenon, <1>6, <1>7

(* A step of the control thread that sends nothing and begins no wait keeps     *)
(* what is said of the vcpu threads, unless it goes on after the end.           *)
LEMMA MainFrame ==
    ASSUME IInv, UNCHANGED <<pc, mode, tube, answers, commanded, exited, turn, sent>>,
           At # "kick", commanded # "Exiting" \/ At' = None,
           At' = None => Goal' = None, At' \notin {"collect", "join"}
    PROVE  /\ Threads' /\ Place' /\ Told' /\ Answers'
           /\ \A u \in Vcpus : Eff(u)' = Eff(u) /\ Stopped(u)' = Stopped(u)
<1>0. TypeOK /\ Threads /\ Place /\ Told /\ Answers
  BY Zenon DEF IInv
<1>1. \A u \in Vcpus : Eff(u)' = Eff(u) /\ Stopped(u)' = Stopped(u)
  BY DEF Eff, Stopped
<1>2. turn' = 1 /\ ~sent' /\ ~Begun' /\ \A u \in Vcpus : ~Reached(u)'
  BY <1>0 DEF Place, Begun, Reached, Vcpus
<1>3. Threads'
  BY <1>0, <1>2 DEF Threads, None
<1>4. Place'
  BY Zenon, <1>0, <1>2 DEF Place
<1>5. Told'
  BY Zenon, <1>0, <1>1, <1>2 DEF Told, Telling
<1>6. Answers'
  BY Zenon, <1>2 DEF Answers, Asked
<1> QED
  BY Zenon, <1>1, <1>3, <1>4, <1>5, <1>6

(* A request is taken, which releases the guards of the last snapshot.          *)
LEMMA TakeInv ==
    ASSUME IInv, Idle, guard' = NoGuard, todo' \in Todos, dev' = dev, got' = got,
           hostWoke => hostWoke', hostWoke' \in BOOLEAN,
           UNCHANGED <<pc, mode, tube, answers, commanded, exited, turn, sent>>,
           \/ At' = None /\ Msg' = None /\ Goal' = None
           \/ At' = "kick" /\ Msg' \in {"Suspending", "GetStates"}
              /\ Goal' \in {"kick", "collect", "suspendvm", "guard"}
           \/ Is("kick", "Running", "kick")' /\ (dev = "Sleep" => hostWoke')
           \/ Is("wake", None, "kick")'
    PROVE  IInv'
<1> USE DEF None, Is
<1>0. TypeOK /\ Threads /\ Place /\ Told /\ Answers /\ Collected /\ Snapshots /\ Asleep /\ Guarded
  BY DEF IInv
<1>1. At = None /\ commanded # "Exiting"
  BY DEF Idle, At
<1>2. /\ Threads' /\ Place' /\ Told' /\ Answers'
      /\ \A u \in Vcpus : Eff(u)' = Eff(u) /\ Stopped(u)' = Stopped(u)
  BY Zenon, <1>1, MainFrame
<1>3. TypeOK'
  BY Zenon, <1>0 DEF TypeOK, NoGuard, Modes
<1>4. Collected' /\ Snapshots'
  BY Zenon DEF Collected, Snapshots
<1>5. Asleep'
  <2>1. dev \in {"Wake", "Sleep"}
    BY <1>0 DEF TypeOK
  <2> QED
    BY Zenon, <1>0, <1>2, <2>1 DEF Asleep
<1>6. Guarded'
  BY DEF Guarded, NoGuard
<1> QED
  BY Zenon, <1>2, <1>3, <1>4, <1>5, <1>6 DEF IInv

(* A request that the control thread takes up is at its first point, with no    *)
(* vcpu told or asked yet.                                                      *)
LEMMA TakeRequestInv ==
    ASSUME IInv, NEW r \in Requests, TakeRequest(r)
    PROVE  IInv'
<1> USE DEF Is, None
<1>1. /\ Idle /\ guard' = NoGuard /\ dev' = dev /\ got' = got /\ hostWoke' = hostWoke
      /\ UNCHANGED <<pc, mode, tube, answers, commanded, exited, turn, sent>>
      /\ todo' = Program(r)
  BY DEF TakeRequest, vcpuVars, place, faults
<1>2. hostWoke' \in BOOLEAN /\ dev \in {"Wake", "Sleep"}
  BY <1>1 DEF IInv, TypeOK
<1>3. r \in {"SuspendVcpus", "ResumeVcpus", "SuspendVm", "ResumeVm", "Snapshot"}
  BY Zenon, ParametersOK
<1>4. CASE r = "SuspendVcpus"
  <2>1. todo' = <<Kick("Suspending"), Kick("GetStates"), Op("collect")>>
    BY <1>1, <1>4 DEF Program
  <2> QED
    BY <1>1, <1>2, <2>1, Begins, TakeInv
<1>5. CASE r = "ResumeVcpus"
  <2>1. CASE dev = "Sleep"
    <3>1. todo' = <<>>
      BY Zenon, <1>1, <1>5, <2>1 DEF Program
    <3> QED
      BY <1>1, <1>2, <3>1, Begins, TakeInv
  <2>2. CASE dev # "Sleep"
    <3>1. todo' = <<Kick("Running")>>
      BY Zenon, <1>1, <1>5, <2>2 DEF Program
    <3> QED
      BY <1>1, <1>2, <2>2, <3>1, Begins, TakeInv
  <2> QED
    BY Zenon, <2>1, <2>2
<1>6. CASE r = "SuspendVm"
  <2>1. todo' = <<Kick("Suspending"), Kick("GetStates"), Op("collect"), Op("suspendvm")>>
    BY Zenon, <1>1, <1>6 DEF Program
  <2> QED
    BY <1>1, <1>2, <2>1, Begins, TakeInv
<1>7. CASE r = "ResumeVm"
  <2>1. todo' = <<Op("wake"), Op("setclock"), Kick("Running")>>
    BY Zenon, <1>1, <1>7 DEF Program
  <2> QED
    BY <1>1, <1>2, <2>1, Begins, TakeInv
<1>8. CASE r = "Snapshot"
  <2>1. todo' = <<Kick("GetStates"), Op("collect"), Op("guard")>>
    BY <1>1, <1>8 DEF Program
  <2> QED
    BY <1>1, <1>2, <2>1, Begins, TakeInv
<1> QED
  BY Zenon, <1>3, <1>4, <1>5, <1>6, <1>7, <1>8

(* The guest's suspend events change the run mode like a request does.          *)
LEMMA TakeSuspendEventInv ==
    ASSUME IInv, NEW suspend \in BOOLEAN, TakeSuspendEvent(suspend)
    PROVE  IInv'
<1> USE DEF Is, None
<1>1. /\ Idle /\ guard' = NoGuard /\ dev' = dev /\ got' = got
      /\ UNCHANGED <<pc, mode, tube, answers, commanded, exited, turn, sent>>
      /\ todo' = <<Kick(IF suspend THEN "Suspending" ELSE "Running")>>
  BY DEF TakeSuspendEvent, vcpuVars, place
<1>2. hostWoke' = (hostWoke \/ (~suspend /\ dev = "Sleep"))
  BY DEF TakeSuspendEvent
<1>3. hostWoke' \in BOOLEAN /\ (hostWoke => hostWoke') /\ (~suspend /\ dev = "Sleep" => hostWoke')
  BY <1>2, Zenon
<1>4. CASE suspend
  <2>1. todo' = <<Kick("Suspending")>>
    BY Zenon, <1>1, <1>4
  <2> QED
    BY Zenon, <1>1, <1>3, <2>1, Begins, TakeInv
<1>5. CASE ~suspend
  <2>1. todo' = <<Kick("Running")>>
    BY <1>1, <1>5
  <2> QED
    BY <1>1, <1>3, <1>5, <2>1, Begins, TakeInv
<1> QED
  BY Zenon, <1>4, <1>5

(* An exit event ends whatever is done: all vcpus are told to exit.             *)
LEMMA TakeExitInv ==
    ASSUME IInv, TakeExit
    PROVE  IInv'
<1> USE DEF Is, None
<1>0. TypeOK /\ Threads /\ Place /\ Told /\ Answers /\ Collected /\ Snapshots /\ Asleep /\ Guarded
  BY DEF IInv
<1>1. /\ At = None /\ commanded # "Exiting"
      /\ UNCHANGED <<pc, mode, tube, answers, got, guard, dev, commanded, exited, turn, sent, hostWoke>>
      /\ todo' \in Todos /\ At' = "kick" /\ Msg' = "Exiting" /\ Goal' = "join"
  BY Zenon, Begins DEF TakeExit, Idle, At, vcpuVars, place, faults
<1>2. /\ Threads' /\ Place' /\ Told' /\ Answers'
      /\ \A u \in Vcpus : Eff(u)' = Eff(u) /\ Stopped(u)' = Stopped(u)
  BY Zenon, <1>1, MainFrame
<1>3. TypeOK'
  BY Zenon, <1>0, <1>1 DEF TypeOK
<1>4. Collected' /\ Snapshots'
  BY Zenon, <1>1 DEF Collected, Snapshots
<1>5. Asleep'
  BY Zenon, <1>0, <1>1, <1>2 DEF Asleep
<1>6. Guarded'
  <2>1. Goal = None
    BY DEF TakeExit, Idle, Goal
  <2> QED
    BY Zenon, <1>0, <1>1, <2>1 DEF Guarded
<1> QED
  BY Zenon, <1>2, <1>3, <1>4, <1>5, <1>6 DEF IInv

(* The result of get_vcpu_state is the mode commanded last, or an error because *)
(* a thread is gone.                                                            *)
LEMMA ResultOf ==
    ASSUME IInv, At = "collect", \A v \in Vcpus : answers[v] # None \/ pc[v] = "done"
    PROVE  /\ Result \in {commanded, "error"}
           /\ Result = "error" => exited
           /\ Result = "Suspending" => \A v \in Vcpus : Stopped(v)
<1> DEFINE all == {answers[v] : v \in Vcpus}
<1>0. TypeOK /\ Threads /\ Answers
  BY Zenon DEF IInv
<1>1. CASE None \in all
  <2>1. PICK v \in Vcpus : answers[v] = None
    BY <1>1
  <2> QED
    BY Zenon, <1>0, <1>1, <2>1 DEF Result, Threads
<1>2. CASE None \notin all
  <2>1. \A v \in Vcpus : answers[v] = commanded /\ (commanded = "Suspending" => Stopped(v))
    BY <1>0, <1>2 DEF Answers, Asked
  <2>2. 1 \in Vcpus
    BY ParametersOK DEF Vcpus
  <2>3. all = {commanded}
    BY Zenon, <2>1, <2>2
  <2>4. ~(Cardinality(all) > 1)
    <3>1. Cardinality({commanded}) = 1
      BY FS_Singleton, Zenon
    <3> HIDE DEF all
    <3> QED
      BY <2>3, <3>1
  <2>5. Result = commanded
    BY Zenon, <1>2, <2>3, <2>4 DEF Result
  <2>6. commanded # "error"
    BY <1>0 DEF TypeOK, Modes
  <2> QED
    BY Zenon, <2>1, <2>5, <2>6
<1> QED
  BY <1>1, <1>2

(* The answers are in: each is the mode commanded, and a vcpu that says it is   *)
(* suspended has stayed where it answered.                                      *)
LEMMA CollectInv ==
    ASSUME IInv, Collect
    PROVE  IInv'
<1> USE DEF Is, None
<1>0. TypeOK /\ Threads /\ Place /\ Told /\ Answers /\ Collected /\ Snapshots /\ Asleep /\ Guarded
  BY DEF IInv
<1>1. /\ At = "collect" /\ todo # <<>> /\ todo' = Tail(todo) /\ got' = Result
      /\ UNCHANGED <<pc, mode, tube, answers, guard, dev, commanded, exited, turn, sent, hostWoke>>
  BY Zenon, NextPoint DEF Collect, vcpuVars, place, faults
<1>2. /\ Result \in {commanded, "error"}
      /\ Result = "error" => exited
      /\ Result = "Suspending" => \A v \in Vcpus : Stopped(v)
  BY Zenon, <1>1, ResultOf DEF Collect
<1>3. Goal \in {"collect", "suspendvm", "guard", "confirm", "snapshot"} /\ Msg = None
  BY Zenon, <1>0, <1>1, Points DEF TypeOK, Point
<1>4. /\ todo' \in Todos
      /\ Goal = "collect" => At' = None /\ Msg' = None /\ Goal' = None
      /\ Goal # "collect" => At' = Goal /\ Msg' = None /\ Goal' = Goal
  BY <1>0, <1>1, Advance DEF TypeOK
<1>5. commanded # "Exiting"
  BY Zenon, <1>0, <1>3 DEF Place
<1>6. /\ Threads' /\ Place' /\ Told' /\ Answers'
      /\ \A u \in Vcpus : Eff(u)' = Eff(u) /\ Stopped(u)' = Stopped(u)
  BY <1>1, <1>3, <1>4, <1>5, MainFrame
<1>7. TypeOK'
  BY <1>0, <1>1, <1>4, Zenon DEF TypeOK
<1>8. Collected'
  BY Zenon, <1>1, <1>2, <1>6 DEF Collected
<1>9. Snapshots'
  BY Zenon, <1>0, <1>1, <1>3, <1>4, <1>6 DEF Snapshots
<1>10. Asleep'
  BY Zenon, <1>0, <1>1, <1>3, <1>4, <1>6 DEF Asleep
<1>11. Guarded'
  BY Zenon, <1>0, <1>1, <1>3, <1>4 DEF Guarded
<1> QED
  BY Zenon, <1>6, <1>7, <1>8, <1>9, <1>10, <1>11 DEF IInv

(* suspend_vm puts the devices to sleep only after all vcpus said that they are *)
(* suspended.                                                                   *)
LEMMA SuspendVmInv ==
    ASSUME IInv, SuspendVm
    PROVE  IInv'
<1> USE DEF Is, None
<1>0. TypeOK /\ Threads /\ Place /\ Told /\ Answers /\ Collected /\ Snapshots /\ Asleep /\ Guarded
  BY DEF IInv
<1>1. /\ At = "suspendvm" /\ todo # <<>> /\ todo' = Tail(todo)
      /\ UNCHANGED <<pc, mode, tube, answers, got, guard, commanded, exited, turn, sent, hostWoke>>
      /\ dev' = dev \/ (got = "Suspending" /\ dev' = "Sleep")
  BY Zenon, NextPoint DEF SuspendVm, vcpuVars, place, faults
<1>2. Goal = "suspendvm"
  BY Zenon, <1>0, <1>1, Points DEF TypeOK, Point
<1>3. todo' \in Todos /\ At' = None /\ Msg' = None /\ Goal' = None
  BY <1>0, <1>1, Advance DEF TypeOK
<1>4. /\ Threads' /\ Place' /\ Told' /\ Answers'
      /\ \A u \in Vcpus : Eff(u)' = Eff(u) /\ Stopped(u)' = Stopped(u)
  BY <1>1, <1>3, MainFrame
<1>5. TypeOK'
  BY <1>0, <1>1, <1>3, Zenon DEF TypeOK
<1>6. Collected' /\ Snapshots'
  BY <1>3 DEF Collected, Snapshots
<1>7. Asleep'
  <2>1. CASE dev' = dev
    BY Zenon, <1>0, <1>1, <1>3, <1>4, <2>1 DEF Asleep
  <2>2. CASE got = "Suspending"
    <3>1. commanded = "Suspending" /\ \A v \in Vcpus : Stopped(v)
      BY Zenon, <1>0, <1>1, <2>2 DEF Collected
    <3>2. \A v \in Vcpus : Eff(v) = "Suspending" /\ mode[v] = "Suspending"
      BY Zenon, <3>1, ModeOfNone DEF Stopped, Eff
    <3> QED
      BY Zenon, <1>1, <1>3, <1>4, <3>1, <3>2 DEF Asleep
  <2> QED
    BY Zenon, <1>1, <2>1, <2>2
<1>8. Guarded'
  BY Zenon, <1>0, <1>1, <1>2, <1>3 DEF Guarded
<1> QED
  BY <1>4, <1>5, <1>6, <1>7, <1>8 DEF IInv

(* resume_vm wakes the devices before it tells a vcpu to run.                   *)
LEMMA WakeDevicesInv ==
    ASSUME IInv, WakeDevices
    PROVE  IInv'
<1> USE DEF Is, None
<1>0. TypeOK /\ Threads /\ Place /\ Told /\ Answers /\ Collected /\ Snapshots /\ Asleep /\ Guarded
  BY DEF IInv
<1>1. /\ At = "wake" /\ todo # <<>> /\ todo' = Tail(todo) /\ dev' = "Wake"
      /\ UNCHANGED <<pc, mode, tube, answers, got, guard, commanded, exited, turn, sent, hostWoke>>
  BY Zenon, NextPoint DEF WakeDevices, vcpuVars, place, faults
<1>2. Goal = "kick" /\ Msg = None
  BY Zenon, <1>0, <1>1, Points DEF TypeOK, Point
<1>3. todo' \in Todos /\ At' = "setclock" /\ Msg' = None /\ Goal' = "kick"
  BY Zenon, <1>0, <1>1, Advance DEF TypeOK
<1>4. Threads' /\ Place' /\ Told' /\ Answers'
  BY <1>0, <1>1, <1>2, <1>3, MainFrame DEF Place
<1>5. TypeOK'
  BY <1>0, <1>1, <1>3, Zenon DEF TypeOK
<1>6. Collected' /\ Snapshots' /\ Asleep'
  BY Zenon, <1>1, <1>3 DEF Collected, Snapshots, Asleep
<1>7. Guarded'
  BY Zenon, <1>0, <1>1, <1>2, <1>3 DEF Guarded
<1> QED
  BY Zenon, <1>4, <1>5, <1>6, <1>7 DEF IInv

(* Between the devices' wake and the vcpus' nothing is asleep.                  *)
LEMMA SetPvclockInv ==
    ASSUME IInv, SetPvclock
    PROVE  IInv'
<1> USE DEF Is, None
<1>0. TypeOK /\ Threads /\ Place /\ Told /\ Answers /\ Collected /\ Snapshots /\ Asleep /\ Guarded
  BY DEF IInv
<1>1. /\ At = "setclock" /\ todo # <<>> /\ todo' = Tail(todo)
      /\ UNCHANGED <<pc, mode, tube, answers, got, guard, dev, commanded, exited, turn, sent, hostWoke>>
  BY Zenon, NextPoint DEF SetPvclock, vcpuVars, place, faults
<1>2. Goal = "kick" /\ Msg = None
  BY Zenon, <1>0, <1>1, Points DEF TypeOK, Point
<1>3. todo' \in Todos /\ At' = "kick" /\ Msg' = "Running" /\ Goal' = "kick"
  BY Zenon, <1>0, <1>1, Advance DEF TypeOK
<1>4. Threads' /\ Place' /\ Told' /\ Answers'
  BY <1>0, <1>1, <1>2, <1>3, MainFrame DEF Place
<1>5. TypeOK'
  BY <1>0, <1>1, <1>3, Zenon DEF TypeOK
<1>6. Collected' /\ Snapshots' /\ Asleep'
  BY Zenon, <1>0, <1>1, <1>3 DEF Collected, Snapshots, Asleep
<1>7. Guarded'
  BY <1>0, <1>1, <1>2, <1>3 DEF Guarded
<1> QED
  BY <1>4, <1>5, <1>6, <1>7 DEF IInv

(* The steps of do_snapshot.                                                    *)
LEMMA GuardVcpusInv ==
    ASSUME IInv, GuardVcpus
    PROVE  IInv'
<1> USE DEF Is, None
<1>0. TypeOK /\ Threads /\ Place /\ Told /\ Answers /\ Collected /\ Snapshots /\ Asleep /\ Guarded
  BY DEF IInv
<1>1. /\ At = "guard"
      /\ UNCHANGED <<pc, mode, tube, answers, got, dev, commanded, exited, turn, sent, hostWoke>>
      /\ guard' = [guard EXCEPT !.held = got \in {"Running", "Suspending"}, !.mode = got,
                                !.found = dev]
  BY NextPoint DEF GuardVcpus, vcpuVars, place, faults
<1>2. commanded \in {"Running", "Suspending"} /\ got \in {commanded, "error"}
  BY <1>0, <1>1, Points DEF TypeOK, Point, Place, Collected, Modes
<1>3. /\ todo' \in Todos
      /\ got = "Running" => At' = "kick" /\ Msg' = "Suspending" /\ Goal' = "confirm"
      /\ got = "Suspending" => At' = "sleep" /\ Msg' = None /\ Goal' = "sleep"
      /\ got = "error" => At' = None /\ Msg' = None /\ Goal' = None
  BY <1>2, Begins DEF GuardVcpus
<1>4. /\ Threads' /\ Place' /\ Told' /\ Answers'
      /\ \A u \in Vcpus : Eff(u)' = Eff(u) /\ Stopped(u)' = Stopped(u)
  BY <1>1, <1>2, <1>3, MainFrame
<1>5. /\ guard'.held = (got \in {"Running", "Suspending"}) /\ guard'.mode = got
      /\ guard'.found = dev
      /\ guard' \in [held : BOOLEAN, mode : Modes \cup {None, "error"}, woken : BOOLEAN,
              found : {"Wake", "Sleep"}]
  <2> DEFINE held == got \in {"Running", "Suspending"}
  <2>1. held \in BOOLEAN
    OBVIOUS
  <2>2. guard' = [guard EXCEPT !.held = held, !.mode = got, !.found = dev]
    BY <1>1
  <2>3. got \in Modes \cup {None, "error"}
    BY <1>2 DEF Modes
  <2> HIDE DEF held
  <2>4. /\ guard'.held = held /\ guard'.mode = got /\ guard'.found = dev
        /\ guard' \in [held : BOOLEAN, mode : Modes \cup {None, "error"}, woken : BOOLEAN,
              found : {"Wake", "Sleep"}]
    BY Zenon, <1>0, <2>1, <2>2, <2>3 DEF TypeOK
  <2> QED
    BY <2>4 DEF held
<1>6. TypeOK'
  BY <1>0, <1>1, <1>3, <1>5, Zenon DEF TypeOK
<1>7. Collected'
  BY <1>2, <1>3 DEF Collected
<1>8. Snapshots'
  BY <1>0, <1>1, <1>2, <1>3, <1>4 DEF Snapshots, Collected
<1>9. Asleep'
  BY <1>0, <1>1, <1>2, <1>3, <1>4 DEF Asleep
<1>10. Guarded'
  <2>1. commanded = "Running" /\ ~hostWoke => dev = "Wake"
    BY Zenon, <1>0 DEF Asleep, TypeOK
  <2> QED
    BY Zenon, <1>1, <1>2, <1>3, <1>5, <2>1 DEF Guarded
<1> QED
  BY <1>4, <1>6, <1>7, <1>8, <1>9, <1>10 DEF IInv

(* VcpuSuspendGuard was made, and do_snapshot goes on only if all vcpus are     *)
(* suspended; if not, its drop tells them to run again.                         *)
LEMMA ConfirmSuspendedInv ==
    ASSUME IInv, ConfirmSuspended
    PROVE  IInv'
<1> USE DEF Is, None
<1>0. TypeOK /\ Threads /\ Place /\ Told /\ Answers /\ Collected /\ Snapshots /\ Asleep /\ Guarded
  BY DEF IInv
<1>1. /\ At = "confirm"
      /\ UNCHANGED <<pc, mode, tube, answers, got, guard, dev, commanded, exited, turn, sent, hostWoke>>
  BY Zenon, NextPoint DEF ConfirmSuspended, vcpuVars, place, faults
<1>2. /\ commanded \in {"Running", "Suspending"} /\ got \in {commanded, "error"}
      /\ Goal = "confirm" /\ guard.held /\ guard.mode = "Running" /\ (~hostWoke => dev = "Wake")
  BY Zenon, <1>0, <1>1, Points DEF TypeOK, Point, Place, Collected, Modes, Guarded
<1>3. /\ todo' \in Todos
      /\ got = "Running" => At' = "kick" /\ Msg' = "Running" /\ Goal' = "kick"
      /\ got = "Suspending" => At' = "sleep" /\ Msg' = None /\ Goal' = "sleep"
      /\ got = "error" => At' = None /\ Msg' = None /\ Goal' = None
  BY Zenon, <1>2, Begins DEF ConfirmSuspended
<1>4. /\ Threads' /\ Place' /\ Told' /\ Answers'
      /\ \A u \in Vcpus : Eff(u)' = Eff(u) /\ Stopped(u)' = Stopped(u)
  BY <1>1, <1>2, <1>3, MainFrame
<1>5. TypeOK'
  BY <1>0, <1>1, <1>3, Zenon DEF TypeOK
<1>6. Collected'
  BY <1>2, <1>3 DEF Collected
<1>7. Snapshots'
  BY Zenon, <1>0, <1>1, <1>2, <1>3, <1>4 DEF Snapshots, Collected
<1>8. Asleep'
  BY Zenon, <1>0, <1>1, <1>2, <1>3, <1>4 DEF Asleep
<1>9. Guarded'
  BY <1>0, <1>1, <1>2, <1>3 DEF Guarded, Collected
<1> QED
  BY <1>4, <1>5, <1>6, <1>7, <1>8, <1>9 DEF IInv

(* DeviceSleepGuard puts the devices to sleep under suspended vcpus, and        *)
(* remembers whether they were awake.                                           *)
LEMMA GuardDevicesInv ==
    ASSUME IInv, GuardDevices
    PROVE  IInv'
<1> USE DEF Is, None
<1>0. TypeOK /\ Threads /\ Place /\ Told /\ Answers /\ Collected /\ Snapshots /\ Asleep /\ Guarded
  BY DEF IInv
<1>1. /\ At = "sleep"
      /\ UNCHANGED <<pc, mode, tube, answers, got, commanded, exited, turn, sent, hostWoke>>
  BY Zenon, NextPoint DEF GuardDevices, vcpuVars, place, faults
<1>2. /\ Goal = "sleep" /\ guard.held /\ guard.mode \in {"Running", "Suspending"}
      /\ commanded = "Suspending" /\ \A v \in Vcpus : Stopped(v)
      /\ ~hostWoke /\ guard.mode = "Running" => dev = "Wake"
      /\ dev = guard.found
  BY Zenon, <1>0, <1>1, Points DEF TypeOK, Point, Snapshots, Guarded
<1>3. \A v \in Vcpus : Eff(v) = "Suspending" /\ mode[v] = "Suspending" /\ pc[v] = "top"
  BY <1>2, ModeOfNone DEF Stopped, Eff
<1>4. CASE /\ dev' = "Sleep"
           /\ guard' = [guard EXCEPT !.woken = dev = "Wake"]
           /\ todo' = <<Kick("Snapshot"), Op("collect"), Op("snapshot")>>
  <2>1. todo' \in Todos /\ At' = "kick" /\ Msg' = "Snapshot" /\ Goal' = "snapshot"
    BY <1>4, Begins
  <2>2. /\ Threads' /\ Place' /\ Told' /\ Answers'
        /\ \A u \in Vcpus : Eff(u)' = Eff(u) /\ Stopped(u)' = Stopped(u)
    BY <1>1, <1>2, <2>1, MainFrame
  <2>3. /\ guard'.held = guard.held /\ guard'.mode = guard.mode /\ guard'.woken = (dev = "Wake")
        /\ guard'.found = guard.found
        /\ guard' \in [held : BOOLEAN, mode : Modes \cup {None, "error"}, woken : BOOLEAN,
              found : {"Wake", "Sleep"}]
    BY Zenon, <1>0, <1>4 DEF TypeOK
  <2>4. TypeOK'
    BY <1>0, <1>1, <1>4, <2>1, <2>3, Zenon DEF TypeOK
  <2>5. Collected' /\ Snapshots'
    BY Zenon, <1>1, <1>2, <1>3, <1>4, <2>1 DEF Collected, Snapshots
  <2>6. Asleep'
    BY Zenon, <1>1, <1>2, <1>3, <2>1, <2>2 DEF Asleep
  <2>7. Guarded'
    BY Zenon, <1>1, <1>2, <2>1, <2>3 DEF Guarded
  <2> QED
    BY <2>2, <2>4, <2>5, <2>6, <2>7 DEF IInv
<1>5. CASE dev = "Wake" /\ todo' = DropVcpuGuard /\ UNCHANGED <<dev, guard>>
  <2>1. /\ todo' \in Todos
        /\ guard.mode = "Suspending" => At' = None /\ Msg' = None /\ Goal' = None
        /\ guard.mode = "Running" => At' = "kick" /\ Msg' = "Running" /\ Goal' = "kick"
    BY Zenon, <1>2, <1>5, Begins DEF DropVcpuGuard
  <2>2. Threads' /\ Place' /\ Told' /\ Answers'
    BY <1>1, <1>2, <2>1, MainFrame
  <2>3. TypeOK'
    BY <1>0, <1>1, <1>5, <2>1, Zenon DEF TypeOK
  <2>4. Collected' /\ Snapshots' /\ Asleep'
    BY Zenon, <1>2, <1>5, <2>1 DEF Collected, Snapshots, Asleep
  <2>5. Guarded'
    BY Zenon, <1>1, <1>2, <1>5, <2>1 DEF Guarded
  <2> QED
    BY <2>2, <2>3, <2>4, <2>5 DEF IInv
<1> QED
  BY <1>4, <1>5 DEF GuardDevices

(* The snapshot ends, and the guards restore what they found: devices first,    *)
(* then vcpus.                                                                  *)
LEMMA SnapshotDevicesInv ==
    ASSUME IInv, SnapshotDevices
    PROVE  IInv'
<1> USE DEF Is, None
<1>0. TypeOK /\ Threads /\ Place /\ Told /\ Answers /\ Collected /\ Snapshots /\ Asleep /\ Guarded
  BY DEF IInv
<1>1. /\ At = "snapshot"
      /\ UNCHANGED <<pc, mode, tube, answers, got, guard, commanded, exited, turn, sent, hostWoke>>
      /\ dev' = IF guard.woken THEN "Wake" ELSE dev
      /\ todo' = DropVcpuGuard
  BY Zenon, NextPoint DEF SnapshotDevices, vcpuVars, place, faults
<1>2. /\ Goal = "snapshot" /\ guard.held /\ guard.mode \in {"Running", "Suspending"}
      /\ commanded = "Suspending"
      /\ ~hostWoke /\ guard.mode = "Running" => guard.woken
      /\ dev = "Sleep" /\ (guard.woken <=> guard.found = "Wake")
  BY Zenon, <1>0, <1>1, Points DEF TypeOK, Point, Snapshots, Guarded
<1>3. /\ todo' \in Todos
      /\ guard.mode = "Suspending" => At' = None /\ Msg' = None /\ Goal' = None
      /\ guard.mode = "Running" => At' = "kick" /\ Msg' = "Running" /\ Goal' = "kick"
  BY Zenon, <1>1, <1>2, Begins DEF DropVcpuGuard
<1>4. /\ Threads' /\ Place' /\ Told' /\ Answers'
      /\ \A u \in Vcpus : Eff(u)' = Eff(u) /\ Stopped(u)' = Stopped(u)
  BY Zenon, <1>1, <1>2, <1>3, MainFrame
<1>5. TypeOK'
  BY Zenon, <1>0, <1>1, <1>3 DEF TypeOK
<1>6. Collected' /\ Snapshots'
  BY Zenon, <1>2, <1>3 DEF Collected, Snapshots
<1>7. Asleep'
  BY Zenon, <1>0, <1>1, <1>2, <1>3, <1>4 DEF Asleep
<1>8. Guarded'
  <2>1. guard.found \in {"Wake", "Sleep"}
    BY <1>0 DEF TypeOK
  <2>2. dev' = guard.found
    BY <1>1, <1>2, <2>1
  <2>3. guard.woken <=> dev' = "Wake"
    BY <1>2, <2>2
  <2> QED
    BY Zenon, <1>1, <1>2, <1>3, <2>2, <2>3 DEF Guarded
<1> QED
  BY <1>4, <1>5, <1>6, <1>7, <1>8 DEF IInv

(* The vcpus' threads are joined after all were told to exit.                   *)
LEMMA JoinInv ==
    ASSUME IInv, Join
    PROVE  IInv'
<1> USE DEF Is, None
<1>0. TypeOK /\ Threads /\ Place /\ Told /\ Answers /\ Collected /\ Snapshots /\ Asleep /\ Guarded
  BY DEF IInv
<1>1. /\ At = "join" /\ commanded = "Exiting"
      /\ UNCHANGED <<pc, mode, tube, answers, got, guard, dev, commanded, exited, turn, sent, hostWoke>>
      /\ todo' \in Todos /\ At' = None /\ Msg' = None /\ Goal' = None
  BY Zenon, <1>0, NextPoint, Begins DEF Join, Place, vcpuVars, place, faults
<1>2. /\ Threads' /\ Place' /\ Told' /\ Answers'
      /\ \A u \in Vcpus : Eff(u)' = Eff(u) /\ Stopped(u)' = Stopped(u)
  BY <1>1, MainFrame
<1>3. TypeOK'
  BY <1>0, <1>1, Zenon DEF TypeOK
<1>4. Collected' /\ Snapshots'
  BY Zenon, <1>1 DEF Collected, Snapshots
<1>5. Asleep'
  BY <1>0, <1>1, <1>2 DEF Asleep
<1>6. Guarded'
  <2>1. Goal = "join"
    BY <1>0, <1>1, Points DEF TypeOK, Point
  <2> QED
    BY Zenon, <1>0, <1>1, <2>1 DEF Guarded
<1> QED
  BY <1>2, <1>3, <1>4, <1>5, <1>6 DEF IInv

-------------------------------------------------------------------------------
(* The theorems. *)

(* Every step of the threads keeps the inductive invariant.                     *)
LEMMA NextInv == IInv /\ [Next]_vars => IInv'
<1> SUFFICES ASSUME IInv, [Next]_vars PROVE IInv'
  OBVIOUS
<1>0. TypeOK /\ Threads
  BY DEF IInv
<1>1. ASSUME NEW v \in Vcpus, SetThreadLocal(v) PROVE IInv'
  BY Zenon, <1>0, <1>1, MovesInv DEF SetThreadLocal, Threads, faults
<1>2. ASSUME NEW v \in Vcpus, SkipMessages(v) PROVE IInv'
  BY Zenon, <1>2, MovesInv DEF SkipMessages, faults
<1>3. ASSUME NEW v \in Vcpus, Run(v) PROVE IInv'
  BY Zenon, <1>0, <1>3, MovesInv DEF Run, Threads, faults
<1>4. ASSUME NEW v \in Vcpus, ClearImmediateExit(v) PROVE IInv'
  BY Zenon, <1>0, <1>4, MovesInv DEF ClearImmediateExit, Threads, faults
<1>5. ASSUME NEW v \in Vcpus, GuestExit(v) PROVE IInv'
  BY Zenon, <1>0, <1>5, MovesInv DEF GuestExit, Threads, faults
<1>6. ASSUME NEW v \in Vcpus, HandleSignal(v) PROVE IInv'
  <2>1. pc' = [pc EXCEPT ![v] = IF pc[v] = "guest" THEN "clear" ELSE pc[v]]
    BY <1>6 DEF HandleSignal
  <2>2. CASE pc[v] = "guest"
    BY Zenon, <1>0, <1>6, <2>1, <2>2, MovesInv DEF HandleSignal, Threads
  <2>3. CASE pc[v] # "guest"
    <3>1. pc' = pc
      BY <1>0, <2>1, <2>3 DEF TypeOK
    <3> QED
      BY Zenon, <1>6, <3>1, StutterInv DEF HandleSignal
  <2> QED
    BY Zenon, <2>2, <2>3
<1>7. ASSUME UNCHANGED vars PROVE IInv'
  BY <1>7, StutterInv DEF vars, mainVars, place
<1>8. ASSUME MainStep PROVE IInv'
  BY <1>8, SendInv, KillInv, CollectInv, SuspendVmInv, WakeDevicesInv, SetPvclockInv, GuardVcpusInv,
     ConfirmSuspendedInv, GuardDevicesInv, SnapshotDevicesInv, JoinInv, Zenon DEF MainStep
<1> QED
  BY <1>1, <1>2, <1>3, <1>4, <1>5, <1>6, <1>7, <1>8, StateLoopInv, SystemEventInv, TakeRequestInv,
     TakeSuspendEventInv, TakeExitInv, Zenon DEF Next, VcpuStep

(* The invariant holds throughout.                                              *)
LEMMA Invariant == Spec => []IInv
  BY InitInv, NextInv, PTL DEF Spec

(* No vcpu is in the guest while the devices sleep, however many vcpus there    *)
(* are and whatever the requests, unless a resume event of the power management *)
(* device came while the devices slept.                                         *)
THEOREM DevicesAwakeUnderVcpus == Spec => []VcpusRunDevicesAwake
<1>1. IInv => VcpusRunDevicesAwake
  BY Zenon DEF IInv, TypeOK, Threads, Asleep, VcpusRunDevicesAwake
<1> QED
  BY <1>1, Invariant, PTL

(* A snapshot is written only while every vcpu thread is in its message loop,   *)
(* suspended, and the devices sleep.                                            *)
THEOREM SnapshotsAreOfStoppedVms == Spec => []SnapshotOfStoppedVm
<1>1. IInv => SnapshotOfStoppedVm
  <2>1. TypeOK /\ At = "snapshot" => Goal = "snapshot"
    BY Zenon, Points DEF TypeOK, Point, Is, None
  <2> QED
    BY Zenon, <2>1, NextPoint DEF IInv, Snapshots, SnapshotOfStoppedVm, None
<1> QED
  BY <1>1, Invariant, PTL

(* After do_snapshot, taken, refused or failed, the devices are as it found     *)
(* them, and the vcpus have been told to go back to the mode they were in,      *)
(* unless one has ended.                                                        *)
THEOREM SnapshotsRollBack == Spec => []GuardsRollBack
<1>1. IInv => GuardsRollBack
  <2>1. Idle => At = None /\ Goal = None /\ commanded # "Exiting"
    BY DEF Idle, At, Goal
  <2>2. None # "snapshot"
    BY DEF None
  <2> QED
    BY Zenon, <2>1, <2>2 DEF IInv, Guarded, GuardsRollBack
<1> QED
  BY <1>1, Invariant, PTL
====
