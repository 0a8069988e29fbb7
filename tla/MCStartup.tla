----------------------------- MODULE MCStartup -----------------------------
(* An instance of Startup for TLC: a number, a flag and a text.            *)
EXTENDS Startup

MCNumber == [t \in {"1", "01 line"} |-> "1"]
MCSizeOf == [t \in {"1", "01 line"} |-> 1]
MCDefault == [k \in {"size", "sync", "inputs"} |->
                CASE k = "size" -> "1" [] k = "sync" -> "false"
                  [] k = "inputs" -> "00"]

L(k, t, n) == [key |-> k, text |-> t, returns |-> n]

(* A full file; one with a key twice, a flag missing and the text empty in *)
(* a line without a carriage return; one whose number is missing.          *)
MCFiles ==
  {<<L(NOKEY, "", 1), L("size", "1", 1), L("sync", "false", 1),
     L("inputs", "", 1)>>,
   <<L("size", "", 0), L("inputs", "", 0), L("size", "x", 0),
     L("size", "01 line", 0)>>,
   <<L("sync", "x", 1), L("inputs", "00", 1)>>}
=============================================================================
