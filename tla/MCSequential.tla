---------------------------- MODULE MCSequential ----------------------------
(***************************************************************************)
(* The two parts that one thread runs alone and that share nothing: the    *)
(* lines and the configuration of the logger (MCLogFormat), and the HTTP   *)
(* example over its Buffer (Http).  A behaviour takes steps of one of them *)
(* while the other stays as it began.                                      *)
(***************************************************************************)
EXTENDS MCLogFormat, Http

seqvars == <<logvars, vars>>

SeqInit == MCInit /\ Init

\* The thread logs ...
Formats == lines = 0 /\ MCNext /\ UNCHANGED vars

\* ... or serves.
Serves ==
    /\ children = <<>> /\ clock = [day |-> 0, ms |-> 0] /\ record.time = <<>>
    /\ Next
    /\ UNCHANGED logvars

SeqNext == Formats \/ Serves

SeqSpec == SeqInit /\ [][SeqNext]_seqvars
=============================================================================
