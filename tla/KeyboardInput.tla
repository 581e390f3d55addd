--------------------------- MODULE KeyboardInput ---------------------------
(* The virtio keyboard end to end: the input device's worker of crosvm        *)
(* (devices/src/virtio/input), the event ring, and the firmware's driver      *)
(* (GunyahVirtioKeyboardDxe) with its timer callback and its readers.         *)
(*                                                                            *)
(* The driver's callbacks run at TPL_NOTIFY: a callback runs to its end before *)
(* a reader goes on, while the device's worker runs at any time.              *)
EXTENDS Naturals, Sequences

CONSTANTS
  Modifiers,    \* keys that print nothing: shift, control
  Letters,      \* keys with a character
  QueueSize,    \* buffers of the event ring
  PerBuffer,    \* input events that fit into a buffer
  MaxTyped,     \* bound on the reports of the keyboard
  Repeats,      \* the keyboard repeats a key that is held down
  MaxResets,    \* bound on the console's resets of the driver
  NoKey

VARIABLES
  source,       \* events the event source has for the worker
  queue,        \* events received and not yet sent (EventSourceImpl.queue)
  kick,         \* the driver notified the event queue
  sending,      \* the worker is in send_events
  avail, used,  \* buffers of the ring
  mem,          \* events in each buffer
  next,         \* NextDescIdx modulo the queue size
  active,       \* KeyActive
  lastKey, keyReady,
  polling,      \* the driver is in VirtioKeyboardGetDeviceData
  copied,       \* the key a reader at TPL_NOTIFY has copied
  held,         \* keys that are really down
  missed,       \* keys whose last event the driver did not decode as what it was
  typed, resets \* numbers of reports and of resets so far

device == <<source, queue, kick, sending>>
ring == <<avail, used, mem, next>>
driver == <<active, lastKey, keyReady, polling, copied>>
keyboardVars == <<device, ring, driver, held, missed, typed, resets>>

Codes == Modifiers \cup Letters

(* A code that is no key's, a ring with a buffer and room for an event in it.   *)
ASSUME KeyboardOK ==
  /\ NoKey \notin Codes
  /\ QueueSize \in Nat \ {0} /\ PerBuffer \in Nat \ {0}

Buffers == 0..(QueueSize - 1)
Syn == [type |-> "syn", code |-> NoKey, value |-> 0]
KeyEvent(code, value) == [type |-> "key", code |-> code, value |-> value]

(* The driver has started and has given all its buffers to the device.        *)
KeyboardInit ==
  /\ source = <<>> /\ queue = <<>> /\ kick = TRUE /\ sending = FALSE
  /\ avail = [i \in 1..QueueSize |-> i - 1] /\ used = <<>>
  /\ mem = [b \in Buffers |-> <<>>]
  /\ next = 0
  /\ active = {} /\ lastKey = NoKey /\ keyReady = FALSE
  /\ polling = FALSE /\ copied = NoKey
  /\ held = {} /\ missed = {} /\ typed = 0 /\ resets = 0
-----------------------------------------------------------------------------
(* The keyboard reports a press (1), a release (0) or a repetition (2). *)
Report(code, value) ==
  /\ typed < MaxTyped
  /\ CASE value = 1 -> code \notin held
       [] value = 0 -> code \in held
       [] value = 2 -> Repeats /\ code \in held
  /\ typed' = typed + 1
  /\ held' = IF value = 0 THEN held \ {code} ELSE held \cup {code}
  /\ source' = source \o <<KeyEvent(code, value), Syn>>
  /\ UNCHANGED <<queue, kick, sending, ring, driver, missed, resets>>

(* receive_events, then send_events *)
ReceiveEvents ==
  /\ ~sending /\ source # <<>>
  /\ queue' = queue \o source /\ source' = <<>>
  /\ sending' = TRUE
  /\ UNCHANGED <<kick, ring, driver, held, missed, typed, resets>>

(* Mutant: a notification of the event queue is only read. *)
EventQIgnored ==
  /\ ~sending /\ kick
  /\ kick' = FALSE
  /\ UNCHANGED <<source, queue, sending, ring, driver, held, missed, typed, resets>>

EventQAvailable ==
  /\ ~sending /\ kick
  /\ kick' = FALSE
  /\ sending' = TRUE
  /\ UNCHANGED <<source, queue, ring, driver, held, missed, typed, resets>>

(* fill_event_virtqueue *)
Filled(events) == SubSeq(events, 1, IF Len(events) < PerBuffer THEN Len(events) ELSE PerBuffer)

(* One round of send_events: a buffer takes as many events as fit. *)
SendEvents ==
  /\ sending
  /\ IF queue # <<>> /\ avail # <<>>
     THEN LET buffer == Head(avail) IN
          /\ mem' = [mem EXCEPT ![buffer] = Filled(queue)]
          /\ queue' = SubSeq(queue, Len(Filled(queue)) + 1, Len(queue))
          /\ avail' = Tail(avail) /\ used' = Append(used, buffer)
          /\ UNCHANGED <<sending, next>>
     ELSE sending' = FALSE /\ UNCHANGED <<queue, ring>>
  /\ UNCHANGED <<source, kick, driver, held, missed, typed, resets>>
-----------------------------------------------------------------------------
(* Mutant: the timer's callback runs below the reader's TPL. *)
TimerUnraised ==
  /\ ~polling
  /\ polling' = TRUE
  /\ UNCHANGED <<device, ring, active, lastKey, keyReady, copied, held, missed, typed, resets>>

(* The timer's callback, or WaitForKey's. *)
Timer ==
  /\ ~polling /\ copied = NoKey
  /\ polling' = TRUE
  /\ UNCHANGED <<device, ring, active, lastKey, keyReady, copied, held, missed, typed, resets>>

(* VirtioKeyboardConvertKeyCode: a key that prints nothing gives a null key. *)
ConvertKeyCode(code) ==
  [char |-> IF code \in Letters THEN code ELSE NoKey,
   shifted |-> code \in Letters /\ Modifiers \cap active # {}]

(* Mutant: a key that goes up stays active. *)
DecodeStuck(event) ==
  IF event.type # "key" THEN UNCHANGED <<active, lastKey, keyReady>>
  ELSE IF event.value = 1
  THEN active' = active \cup {event.code} /\ lastKey' = ConvertKeyCode(event.code) /\ keyReady' = TRUE
  ELSE UNCHANGED <<active, lastKey, keyReady>>

(* One event; every value but a press is taken for a release. The codes of     *)
(* crosvm's keyboard are below 256, where the driver's cast to UINT8 keeps     *)
(* them apart, and a buffer the device has used holds a whole event.           *)
Decode(event) ==
  IF event.type # "key" THEN UNCHANGED <<active, lastKey, keyReady>>
  ELSE IF event.value = 1
  THEN active' = active \cup {event.code} /\ lastKey' = ConvertKeyCode(event.code) /\ keyReady' = TRUE
  ELSE active' = active \ {event.code} /\ UNCHANGED <<lastKey, keyReady>>

(* The keys of the events of a buffer; whose press or release the driver       *)
(* decodes; whose events it skips, or takes for what they are not.             *)
KeysOf(events) == {events[i].code : i \in DOMAIN events} \cap Codes
Told(events) == KeysOf(SubSeq(events, 1, 1))
Skipped(events) ==
  KeysOf(SubSeq(events, 2, Len(events))) \cup (IF events[1].value = 2 THEN Told(events) ELSE {})

(* VirtioKeyboardRingGetBuffer copies the buffer that the device used, gives   *)
(* the next one of the cycle back without notifying the device, and the caller *)
(* decodes the first event of the copy.                                        *)
GetBuffer ==
  /\ used # <<>>
  /\ Decode(mem[Head(used)][1])
  /\ used' = Tail(used)
  /\ avail' = Append(avail, next) /\ next' = (next + 1) % QueueSize
  /\ missed' = (missed \ Told(mem[Head(used)])) \cup Skipped(mem[Head(used)])
  /\ UNCHANGED <<polling, mem>>

GetDeviceData ==
  /\ polling
  /\ \/ GetBuffer
     \/ used = <<>> /\ polling' = FALSE /\ UNCHANGED <<ring, active, lastKey, keyReady, missed>>
  /\ UNCHANGED <<device, copied, held, typed, resets>>

(* VirtioKeyboardSimpleTextInputReadKeyStroke, at TPL_NOTIFY. *)
CopyKey ==
  /\ ~polling /\ copied = NoKey /\ keyReady
  /\ copied' = lastKey
  /\ UNCHANGED <<device, ring, active, lastKey, keyReady, polling, held, missed, typed, resets>>

ConsumeKey ==
  /\ copied # NoKey
  /\ keyReady' = FALSE
  /\ copied' = NoKey
  /\ UNCHANGED <<device, ring, active, lastKey, polling, held, missed, typed, resets>>

(* VirtioKeyboardSimpleTextInputReset: the device's worker stops and keeps the *)
(* events it has not sent, the ring starts afresh, the keys are left alone.    *)
Reset ==
  /\ resets < MaxResets /\ ~polling /\ copied = NoKey
  /\ resets' = resets + 1
  /\ avail' = [i \in 1..QueueSize |-> i - 1] /\ used' = <<>>
  /\ mem' = [b \in Buffers |-> <<>>] /\ next' = 0
  /\ sending' = FALSE /\ kick' = TRUE
  /\ missed' = missed \cup UNION {KeysOf(mem[used[i]]) : i \in DOMAIN used}
  /\ UNCHANGED <<source, queue, driver, held, typed>>

Worker == ReceiveEvents \/ EventQAvailable \/ SendEvents

KeyboardNext ==
  \/ \E code \in Codes, value \in 0..2 : Report(code, value)
  \/ Worker
  \/ Timer \/ GetDeviceData \/ CopyKey \/ ConsumeKey \/ Reset

KeyboardSpec == KeyboardInit /\ [][KeyboardNext]_keyboardVars

(* The worker and the periodic timer run.  Nothing makes anyone read a key. *)
KeyboardFairSpec ==
  /\ KeyboardSpec
  /\ WF_keyboardVars(Worker) /\ WF_keyboardVars(GetDeviceData)
  /\ WF_keyboardVars(Timer) /\ WF_keyboardVars(ConsumeKey)
-----------------------------------------------------------------------------
(* A key stops being ready only when a reader has the key that is then the      *)
(* last one: no callback replaces it between the copy and the flag.             *)
TakesLast == [][keyReady /\ ~keyReady' => copied = lastKey]_keyboardVars

(* When no event is on its way, the driver knows for each key whether it is     *)
(* down, unless the last event of that key was a repetition, which it takes for *)
(* a release, was not the first of its buffer, or was lost in a reset.          *)
ModifiersTrue ==
  source = <<>> /\ queue = <<>> /\ used = <<>> =>
    \A code \in Codes \ missed : code \in active <=> code \in held

(* Every event the worker has received reaches the driver, provided the ring    *)
(* never runs out of buffers: the driver returns them without a notification.   *)
EventsArrive ==
  [](avail # <<>>) => ((queue # <<>> \/ used # <<>>) ~> (queue = <<>> /\ used = <<>>))
=============================================================================
