--------------------------- MODULE MCLinuxLoader ----------------------------
(* Instances of LinuxLoader for TLC: an SD card, a USB disk, a network. *)
EXTENDS LinuxLoader

CONSTANTS sd, usb0, net

Usb == <<usb0>>

Files(k, d, i) == [fs |-> TRUE, kernel |-> k, dtb |-> d, initrd |-> i]
NoFs == [fs |-> FALSE, kernel |-> "ok", dtb |-> "ok", initrd |-> "ok"]

Good  == Files("ok", "ok", "ok")
Bare  == Files("absent", "ok", "ok")

On(card, disk, network) ==
  [u \in Target |-> CASE u = sd -> card [] u = usb0 -> disk [] u = net -> network]

\* Each way a target can be bad and each kind of initrd, beside targets that are good
\* or have no kernel.
MCContents ==
  {On(Bare,                         Files("ok", "ok", "absent"), Good),
   On(Files("stat", "ok", "ok"),    Files("ok", "ok", "short"),  Bare),
   On(Files("short", "ok", "ok"),   Files("ok", "ok", "empty"),  Good),
   On(Files("ok", "invalid", "ok"), Good,                        Files("big", "ok", "ok")),
   On(Files("ok", "empty", "ok"),   Bare,                        Good),
   On(NoFs,                         Files("ok", "nomem", "ok"),  Files("ok", "empty", "ok")),
   On(Bare,                         Good,                        Files("ok", "invalid", "ok")),
   On(Bare,                         NoFs,                        Files("ok", "nomem", "ok")),
   On(Good,                         Bare,                        Bare)}
=============================================================================
