-------------------------- MODULE MCSourceRegistry ---------------------------
(* SourceRegistry with Pi-hole submissions beside a Pi-hole set by env,     *)
(* whose id the first submission that is saved is given.                    *)
EXTENDS SourceRegistry, TLC

CONSTANTS r1, r2, v1, v2

MCKindOf == [r \in Requests |-> "pihole"]
MCSameServer == [r \in Requests |-> v1]
MCOtherServer == [r \in Requests |-> v2]
MCTwoServers == r1 :> v1 @@ r2 :> v2
MCEnvPihole == << [id |-> <<"pihole", 1>>, server |-> v1] >>
=============================================================================
