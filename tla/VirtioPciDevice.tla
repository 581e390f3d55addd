-------------------------- MODULE VirtioPciDevice --------------------------
(***************************************************************************)
(* crosvm's side of a virtio-pci device while a driver binds it: the       *)
(* device status register, the queue configurations, and when the device   *)
(* is activated and reset.  A ring address is abstracted to whether it is  *)
(* the ring the driver holds now.                                          *)
(***************************************************************************)
EXTENDS Integers

CONSTANT ActivationMayFail \* may activate fail, in a queue or in VirtioDevice::activate?

VARIABLES status,          \* driver_status, as the set of its bits
          deviceActivated, \* device_activated: the backend runs on the queues
          ready,           \* the queues with QueueConfig.ready
          activated,       \* the queues with QueueConfig.activated
          address          \* queue -> "none", "held" or "freed"

deviceVars == <<status, deviceActivated, ready, activated, address>>

DeviceInit(queues) ==
    /\ status = {}
    /\ deviceActivated = FALSE
    /\ ready = {}
    /\ activated = {}
    /\ address = [q \in queues |-> "none"]

(* is_driver_ready *)
DriverReady(bits) ==
    /\ {"ACK", "DRIVER", "FEATURES_OK", "DRIVER_OK"} \subseteq bits
    /\ "FAILED" \notin bits

(* activate takes the ready queues in order.  It stops at the first that   *)
(* is already activated, or that fails, and those before it stay           *)
(* activated; else the backend starts or asks for a reset.                 *)
Activate(bits) ==
    \/ /\ ready \cap activated = {}
       /\ activated' = activated \cup ready
       /\ \/ status' = bits /\ deviceActivated' = TRUE
          \/ /\ ActivationMayFail
             /\ status' = bits \cup {"NEEDS_RESET"}
             /\ UNCHANGED deviceActivated
    \/ \E b \in ready :
         /\ b \in activated \/ ActivationMayFail
         /\ \A q \in ready \cap activated : b <= q
         /\ activated' = activated \cup {q \in ready : q < b}
         /\ status' = bits
         /\ UNCHANGED deviceActivated

(* A write of the status register, to the end of write_bar.  A reset       *)
(* reaches the queues only of a device that is activated.                  *)
WriteStatus(bits) ==
    \/ /\ ~deviceActivated /\ DriverReady(bits)
       /\ Activate(bits)
       /\ UNCHANGED <<ready, address>>
    \/ /\ deviceActivated /\ bits = {}
       /\ deviceActivated' = FALSE
       /\ ready' = {}
       /\ activated' = {}
       /\ address' = [q \in DOMAIN address |-> "none"]
       /\ status' = bits
    \/ /\ ~(~deviceActivated /\ DriverReady(bits))
       /\ ~(deviceActivated /\ bits = {})
       /\ status' = bits
       /\ UNCHANGED <<deviceActivated, ready, activated, address>>

(* The writes of the ring's addresses and of queue_enable.  Those to a     *)
(* queue that is ready are ignored.                                        *)
SetQueueAddress(q) ==
    /\ address' = IF q \in ready THEN address ELSE [address EXCEPT ![q] = "held"]
    /\ ready' = ready \cup {q}
    /\ UNCHANGED <<status, deviceActivated, activated>>

(* The driver frees the ring whose address queue q may have. *)
RingFreed(q) ==
    /\ address' = [address EXCEPT ![q] = IF @ = "held" THEN "freed" ELSE @]
    /\ UNCHANGED <<status, deviceActivated, ready, activated>>

=============================================================================
