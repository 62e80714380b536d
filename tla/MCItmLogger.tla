----------------------------- MODULE MCItmLogger -----------------------------
(* ItmLogger for TLC: two tasks, texts shorter and longer than the buffer.    *)
EXTENDS ItmLogger

CONSTANTS t1, t2

TheTasks == {t1, t2}
===============================================================================
