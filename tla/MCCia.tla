-------------------------------- MODULE MCCia --------------------------------
(* Programs to check a CIA with, by the registers they read and write: each  *)
(* is about one question.                                                    *)
EXTENDS Cia

Control(reg, bytes) == {[reg |-> reg, byte |-> b] : b \in bytes}
Latch(reg, values) == {[reg |-> reg, value |-> v] : v \in values}
Read(reg) == {[reg |-> reg]}
Imr(byte) == {[reg |-> "IMR", set |-> s, byte |-> byte] : s \in BOOLEAN}

(* One timer in every mode, polled. *)
Polling ==
  Control("CRA", {{}, {"START"}, {"START", "FLOAD"}, {"START", "CR_ONESHOT"},
                {"CR_ONESHOT"}, {"START", "CNT"}})
    \cup Latch("TAL", {0, 1}) \cup Latch("TAH", {0}) \cup Read("TA")

(* Timer B, in one of its two modes, counts the underflows of A. *)
Chain(mode) ==
  Control("CRA", {{"START"}}) \cup Control("CRB", {mode \cup {"START", "INMODE_TA"}})
    \cup Latch("TAL", {0}) \cup Latch("TAH", {0})
    \cup Latch("TBH", {0}) \cup Read("TB")

(* The same, and B is stopped and started again. *)
ChainStopped ==
  Control("CRA", {{"START"}}) \cup Control("CRB", {{}, {"START", "INMODE_TA"}})
    \cup Latch("TAL", {0})

(* Interrupts from timer A. *)
InterruptsA ==
  Control("CRA", {{"START"}, {"START", "CR_ONESHOT"}})
    \cup Latch("TAL", {1}) \cup Latch("TAH", {0})
    \cup Imr({"TA"}) \cup Read("ICR")

(* Interrupts from timer B, with the bug of the old chip. *)
InterruptsB ==
  Control("CRB", {{"START"}})
    \cup Latch("TBL", {1}) \cup Latch("TBH", {0})
    \cup Imr({"TB"}) \cup Read("ICR")

Chip(models, accesses) == [model : models, accesses : {accesses}]

ExactPrograms ==
  Chip({"new"}, Polling)
    \cup Chip({"new"}, Chain({})) \cup Chip({"new"}, Chain({"CR_ONESHOT"}))
    \cup Chip({"old", "new"}, InterruptsA) \cup Chip({"old"}, InterruptsB)

StopPrograms == Chip({"new"}, ChainStopped)
=============================================================================
