------------------------------ MODULE MCNotifier -----------------------------
(* Notifier for TLC: three corrupt files and one finished run to tell of.    *)
EXTENDS Notifier

CONSTANTS corrupt, finished, k1, k2, k3

MCNotices == [event : {corrupt}, key : {k1, k2, k3}]
             \cup [event : {finished}, key : {k1}]
=============================================================================
