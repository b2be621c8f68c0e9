------------------------------ MODULE MCStage1 ------------------------------
(* Instances of Stage1 for TLC: an SD card, a USB disk, SPI flash, a network. *)
EXTENDS Stage1

CONSTANTS sd1, spi1, usb0, net

Usb == <<usb0>>

All(k) == [t \in Target |-> k]

\* An SD card that boots; an SD card without a second stage and a USB disk with
\* one; everything but the SD card, of every kind.
MCSetups ==
  {[builtin |-> {sd1}, elf |-> All("ok")],
   [builtin |-> {sd1, usb0}, elf |-> [All("noelf") EXCEPT ![usb0] = "ok"]]}
    \cup {[builtin |-> {usb0, spi1, net}, elf |-> All(k)] : k \in Kind}
=============================================================================
