------------------------------- MODULE MCCore -------------------------------
(* What is checked for safety alone: the custody of the notes of two        *)
(* operations, and the data the framework merges, encodes and sorts (the    *)
(* configuration tree, host messages, the order of finalizers).  They share *)
(* no state, so a behaviour is about one of them.                           *)
EXTENDS CashSystem, Configuration, HostMessage, FinalizerOrder

Base == [encoding |-> "ascii", bytes |-> 0, padding |-> "none", strip |-> FALSE, width |-> 2, maxLength |-> 3,
         lengthBcd |-> FALSE, digits |-> FALSE, digitCount |-> 0, nibbleRight |-> FALSE,
         nibble |-> 0, allowBlank |-> FALSE, plain |-> FALSE]
TheDefinitions == {
  [Base EXCEPT !.plain = TRUE],
  [Base EXCEPT !.bytes = 2, !.padding = "right", !.strip = TRUE],
  [Base EXCEPT !.bytes = 3, !.padding = "right"],
  [Base EXCEPT !.encoding = "utf8"],
  [Base EXCEPT !.encoding = "utf8", !.digits = TRUE],
  [Base EXCEPT !.encoding = "utf8", !.bytes = 3, !.padding = "right", !.strip = TRUE],
  [Base EXCEPT !.encoding = "ascii-hex"],
  [Base EXCEPT !.bytes = 2, !.padding = "left", !.strip = TRUE, !.allowBlank = TRUE],
  [Base EXCEPT !.bytes = 2],
  [Base EXCEPT !.lengthBcd = TRUE, !.width = 3, !.allowBlank = TRUE],
  [Base EXCEPT !.encoding = "bcd", !.digits = TRUE, !.lengthBcd = TRUE,
               !.nibbleRight = TRUE, !.nibble = 15],
  [Base EXCEPT !.encoding = "bcd", !.digits = TRUE],
  [Base EXCEPT !.encoding = "bcd", !.bytes = 2, !.digitCount = 3,
               !.nibbleRight = TRUE, !.nibble = 15],
  [Base EXCEPT !.encoding = "bcd"]}
\* Both in the primary bitmap, on its border, and both sides of 64.
TheElements == {<<2, 64>>, <<65, 3>>, <<128, 64>>}
TheValues(f) ==
  IF f.plain THEN {<<Digit(1)>>}
  ELSE IF f.encoding = "bcd" THEN {<<1>>, <<0, 1>>, <<9, 0, 1>>, <<1, 2, 3, 4>>}
  ELSE IF f.encoding = "utf8" THEN {<<Digit(1)>>, <<233>>, <<233, Digit(1)>>, <<233, Space>>}
  ELSE IF f.encoding = "ascii-hex" THEN {<<1>>, <<12, 3>>, <<0, 1, 0, 15>>}
  ELSE {<<>>, <<Space>>, <<Digit(1)>>, <<Digit(0), Space>>, <<Space, Digit(1)>>,
        <<Digit(1), Digit(2), Digit(3)>>}

VARIABLE part

coreVars == <<part, vars, configVars, messageVars, orderVars>>

\* Operations are interchangeable, and so are finalizers.
CoreSymmetry == Permutations(Ops) \cup Permutations(Ids)

\* What a behaviour is not about starts in one way.
CoreInit ==
  /\ part \in {"cash", "configuration", "message", "order"}
  /\ Init /\ OrderInit /\ ConfigInit
  /\ part # "configuration" =>
       fixed = Missing /\ memory = Missing /\ rows = [p \in Paths |-> 0] /\ diverged = {}
  /\ IF part = "message" THEN MessageInit ELSE NoMessage

CoreNext ==
  /\ UNCHANGED part
  /\ \/ part = "cash" /\ Next /\ UNCHANGED <<configVars, messageVars, orderVars>>
     \/ part = "configuration" /\ ConfigNext /\ UNCHANGED <<vars, messageVars, orderVars>>
     \/ part = "message" /\ MessageNext /\ UNCHANGED <<vars, configVars, orderVars>>
     \/ part = "order" /\ OrderNext /\ UNCHANGED <<vars, configVars, messageVars>>

CoreSpec == CoreInit /\ [][CoreNext]_coreVars
=============================================================================
