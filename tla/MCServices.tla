----------------------------- MODULE MCServices -----------------------------
(* Services for TLC: the catalogue and the areas they are offered in, the  *)
(* execution of one that is booked, and who is notified.  The four share   *)
(* the server and no row, so a behaviour is about one of them and leaves   *)
(* the others alone.                                                       *)
EXTENDS ServiceExecution, Catalogue, ServiceAreas, Notifications, TLC

CONSTANTS i1, i2, i3, q1, q2, k1, k2, z1, u1, u2, p1

VARIABLE about

\* The templates of another service type are seeded first.
MCPhaseOf == i1 :> "PRE_SERVICE" @@ i2 :> "DURING_SERVICE" @@ i3 :> "POST_SERVICE"
MCSeeds   == <<"COOK", "PRE_SERVICE", i1, "DURING_SERVICE", i2,
               "POST_SERVICE", i3>>
MCCodes   == <<k1, k2>>
MCMaxIds  == [t \in Tables |-> CASE t = "prices" -> 3
                                 [] t \in {"categories", "homeCategories"} -> 2
                                 [] OTHER -> 1]

MCInit ==
  /\ Init /\ CatalogueInit /\ AreasInit /\ NotificationsInit
  /\ about \in {"execution", "catalogue", "areas", "notifications"}
  /\ about # "execution" => part = "checklist"
  /\ about # "catalogue" => section = Others

MCNext ==
  /\ \/ about = "execution"     /\ Next              /\ UNCHANGED <<cdata, adata, ndata>>
     \/ about = "catalogue"     /\ CatalogueNext     /\ UNCHANGED <<edata, adata, ndata>>
     \/ about = "areas"         /\ AreasNext         /\ UNCHANGED <<edata, cdata, ndata>>
     \/ about = "notifications" /\ NotificationsNext /\ UNCHANGED <<edata, cdata, adata>>
  /\ UNCHANGED about

MCSpec == MCInit /\ [][MCNext]_<<vars, cdata, adata, ndata, about>>

Symmetry == Permutations(Requests) \cup Permutations(Users)
=============================================================================
