--------------------------- MODULE MCWmbusTelegram ---------------------------
(* Small instances of WmbusTelegram: a telegram with one field and one with *)
(* that field and another.                                                  *)
EXTENDS WmbusTelegram

CONSTANTS h1, h2, t1, t2, f1, f2

Telegram == [h \in Handlers |-> IF h = h1 THEN t1 ELSE t2]
FieldsOf == [t \in Telegrams |-> IF t = t1 THEN {f1} ELSE {f1, f2}]

WrongThenRight == <<"wrong", "right">>
RightThenWrong == <<"right", "wrong">>
=============================================================================
