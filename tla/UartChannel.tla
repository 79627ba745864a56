---------------------------- MODULE UartChannel ----------------------------
(***************************************************************************)
(* What the UART driver does with characters: two channels. A character    *)
(* that was put is taken to be sent, in order and once, unless it is       *)
(* flushed. A character that arrives is handed out, in order and once,     *)
(* unless it is flushed, or is still arriving when one is taken to be      *)
(* sent. Taking one may be the last thing the driver does.                 *)
(***************************************************************************)
EXTENDS Sequences

CONSTANTS
  Char,     \* the characters
  NULL      \* no character

VARIABLES
  sending,  \* characters put and not taken yet
  arriving, \* a character that arrived and was not stored yet
  received, \* characters stored and not handed out yet
  fault     \* the driver has stopped

channel == <<sending, arriving, received, fault>>

Init == sending = <<>> /\ arriving = NULL /\ received = <<>> /\ fault = FALSE

Put(c) == ~fault /\ sending' = Append(sending, c) /\ UNCHANGED <<arriving, received, fault>>

Take ==
  /\ ~fault /\ sending # <<>>
  /\ sending' = Tail(sending) /\ arriving' = NULL /\ fault' \in BOOLEAN
  /\ UNCHANGED received

FlushTx == ~fault /\ sending' = <<>> /\ UNCHANGED <<arriving, received, fault>>

Receive(c) == arriving = NULL /\ arriving' = c /\ UNCHANGED <<sending, received, fault>>

Store ==
  /\ ~fault /\ arriving # NULL
  /\ received' = Append(received, arriving) /\ arriving' = NULL
  /\ UNCHANGED <<sending, fault>>

Get == ~fault /\ received # <<>> /\ received' = Tail(received) /\ UNCHANGED <<sending, arriving, fault>>

FlushRx == ~fault /\ received' = <<>> /\ UNCHANGED <<sending, arriving, fault>>

Next == Take \/ FlushTx \/ Store \/ Get \/ FlushRx \/ \E c \in Char : Put(c) \/ Receive(c)

Spec == Init /\ [][Next]_channel /\ WF_channel(Take)

=============================================================================
