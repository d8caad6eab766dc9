---------------------------- MODULE MCTransport ----------------------------
(* The instance of Transport that TLC checks.                              *)
EXTENDS Transport

CONSTANTS t, u   \* the topics

(* All parties use t and one of them u.                                    *)
AllAndOne == (Party \X {t}) \cup {<<1, u>>}
=============================================================================
