---------------------------- MODULE MCWebSession ----------------------------
(* Small instances of WebSession.                                              *)
EXTENDS WebSession, TLC

(* States in which every goroutine of a login is busy are not followed further: *)
(* of two QR logins and two requests, three go on at a time.                    *)
Busy == Cardinality({q \in QRs : qrs[q] # "idle"})
        + Cardinality({r \in Reqs : reqs[r] # IdleReq})
AtOnce == Busy <= 3

Symmetry == Permutations(QRs) \cup Permutations(Reqs) \cup Permutations(Keys \ {Default})
=============================================================================
