----------------------------- MODULE BootQueue ------------------------------
(***************************************************************************)
(* The queue of boot targets that app/linux-bootloader and app/vc4-stage1  *)
(* each have a copy of.  Threads that find a device (the loader itself, a  *)
(* USB prober, the network stack) add its name; the loader takes the names *)
(* one by one.  List and event are only changed under pending_device_lock, *)
(* so each operation is one step.                                          *)
(***************************************************************************)
EXTENDS Sequences

VARIABLES
  pending_devices,   \* the list of names, oldest first
  nonempty           \* the event pending_devices_nonempty: is it signaled?

queueVars == <<pending_devices, nonempty>>

QueueInit == pending_devices = <<>> /\ nonempty = FALSE

AddBootTarget(name) ==
  /\ pending_devices' = Append(pending_devices, name)
  /\ nonempty' = TRUE

\* BUG: the event is not unsignaled with the last name.
BugRemoveHead ==
  /\ pending_devices' = (IF pending_devices = <<>> THEN <<>> ELSE Tail(pending_devices))
  /\ UNCHANGED nonempty

\* list_remove_head and event_unsignal; on an empty list the name is NULL.
RemoveHead ==
  /\ pending_devices' = (IF pending_devices = <<>> THEN <<>> ELSE Tail(pending_devices))
  /\ nonempty' = (nonempty /\ pending_devices' # <<>>)
=============================================================================
