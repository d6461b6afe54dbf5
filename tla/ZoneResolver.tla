---------------------------- MODULE ZoneResolver ----------------------------
(***************************************************************************)
(* Which service area an address, or an agent's home, belongs to: the one  *)
(* that lists its pincode, else the nearest one within whose radius it     *)
(* lies, else one of its city.                                             *)
(*                                                                         *)
(* A place is a record of its pincode, its city and, for each area, how    *)
(* far it is from that area's centre in km.  Areas are given as a function *)
(* from their ids: whether the area is active, its city, the pincodes of   *)
(* its localities and its radius in km.                                    *)
(***************************************************************************)
EXTENDS Naturals

CONSTANTS
  Unknown,  \* a pincode, city, distance or radius that is not given
  NoZone    \* outside every area

DefaultRadius == 3

Open(served) == {a \in DOMAIN served : served[a].active}

\* pickClosest: the nearest of those whose distance is known; two that are
\* equally near are ranked as the database returned them.
Closest(place, S) ==
  {a \in S : /\ place.far[a] # Unknown
             /\ \A b \in S : place.far[b] # Unknown => place.far[a] <= place.far[b]}

\* One of several areas; without any distance, as the database returned them.
OneOf(place, S) == IF Closest(place, S) = {} THEN S ELSE Closest(place, S)

ByPincode(place, served) ==
  {a \in Open(served) : place.pincode # Unknown /\ place.pincode \in served[a].pincodes}

\* A radius of 0 is none, too.
Radius(area) == IF area.radius \in {0, Unknown} THEN DefaultRadius ELSE area.radius

Within(place, served) ==
  {a \in Open(served) : place.far[a] # Unknown /\ place.far[a] <= Radius(served[a])}

\* At most twenty of them, which here are all there are.
ByCity(place, served) ==
  {a \in Open(served) : place.city # Unknown /\ served[a].city = place.city}

\* resolve: what it may return.
Resolved(place, served) ==
  IF ByPincode(place, served) # {}   THEN OneOf(place, ByPincode(place, served))
  ELSE IF Within(place, served) # {} THEN Closest(place, Within(place, served))
  ELSE IF ByCity(place, served) # {} THEN OneOf(place, ByCity(place, served))
  ELSE {NoZone}
=============================================================================
