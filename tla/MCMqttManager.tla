---------------------------- MODULE MCMqttManager ----------------------------
(* Small instances of the MQTT manager: two messages of one topic and one of another, and a
   command of each kind. *)
EXTENDS MqttManager

CONSTANTS a1, a2, b, answer,                              \* messages
          wifi, other, foreign, reconnect, restart, reboot   \* commands

MCTopic  == [m \in Msg |-> IF m \in {a1, a2} THEN "a" ELSE IF m = b THEN "b" ELSE "answers"]
MCKind   == [c \in Command |-> CASE c = wifi -> "wifi"           [] c \in {other, foreign} -> "other"
                                 [] c = reconnect -> "reconnect" [] c = restart -> "restart"
                                 [] c = reboot -> "reboot"]
MCForeign == {foreign}
MCAnswer == [c \in Command |-> answer]

Nothing == [sent |-> {}, commands |-> {}, status |-> FALSE, forgets |-> FALSE,
            lives |-> 0, refreshes |-> 0]

(* Messages that replace each other; the status, with a session the broker may lose and a forced
   reconnection; commands with an id, one of them another locker's, and one whose answer competes with messages for the queue;
   a command to reconnect; a restart of the service, for which the command may come again; and a
   reboot. *)
Starts == {[Nothing EXCEPT !.sent = {a1, a2}],
           [Nothing EXCEPT !.status = TRUE, !.forgets = TRUE, !.refreshes = 1],
           [Nothing EXCEPT !.commands = {wifi, other}],
           [Nothing EXCEPT !.commands = {other, foreign}],
           [Nothing EXCEPT !.commands = {wifi}, !.sent = {a1, b}],
           [Nothing EXCEPT !.commands = {reconnect}, !.sent = {b}],
           [Nothing EXCEPT !.commands = {restart}, !.sent = {b}, !.lives = 1],
           [Nothing EXCEPT !.commands = {reboot}, !.status = TRUE, !.lives = 1]}
=============================================================================
