----------------------------- MODULE MCProfiles -----------------------------
(* Agents and customers' addresses for TLC.  The two share the server and  *)
(* no row, so a behaviour is about one of them and leaves the other alone. *)
EXTENDS Agents, Addresses, TLC

CONSTANTS a1, a2, b1, b2, q1, q2, h1, h2, h3, z1, z2

VARIABLE about

\* Two areas, and every way a place can lie to them.
MCZones     == {z1, z2}
MCPlaces    == [pincode: {1, Unknown}, city: {1, Unknown},
                far: [MCZones -> {1, 5, Unknown}]]
MCCoverages == [MCZones -> [active: BOOLEAN, city: {1}, pincodes: {{}, {1}},
                            radius: {0, 5}]]

MCInit ==
  /\ Init /\ AddressInit
  /\ about \in {"agents", "addresses"}
  /\ about = "addresses" =>
       part = "desk" /\ \E s \in Starts : /\ \A t \in Starts : s <= t
                                          /\ \A b \in Bookings : bookings[b].start = s

\* Bound: requests about jobs do not die here; they do in BookingRequests.
JobsSurvive == part = "jobs" => deaths' = 0

MCNext ==
  \/ about = "agents" /\ Next /\ JobsSurvive /\ UNCHANGED <<book, about>>
  \/ about = "addresses" /\ AddressNext /\ UNCHANGED <<adata, about>>

MCSpec == MCInit /\ [][MCNext]_<<vars, book, about>>

Symmetry == Permutations(Bookings) \cup Permutations(Requests)
              \cup Permutations(Address) \cup Permutations(MCZones)
=============================================================================
