--------------------------- MODULE MCRoutedSession ---------------------------
(* Two topologies: a device whose cameras 1 and 2 have the Camera1 indices *)
(* 0 and 1, so that an index is the Camera2 ID of another camera, and one  *)
(* whose only public camera 1 has index 0.                                 *)
EXTENDS RoutedSession, TLC

CONSTANTS a, b, u, shared, v, p0, p1

Phone == [targets |-> (0 :> 1 @@ 1 :> 2),
          index |-> (1 :> 0 @@ 2 :> 1 @@ 1000 :> 2 @@ 1001 :> 3)]
Single == [targets |-> (0 :> 1 @@ 1 :> None), index |-> (1 :> 0 @@ 1000 :> 1 @@ 1001 :> 2)]
MCTopology == {Phone, Single}

Line(p, s, r) == [package |-> p, slot |-> s, provider |-> r]
MCRouteTable ==
  {<<>>, <<Line(b, 0, p1), Line(AnyPackage, 0, v)>>,
   <<Line(AnyPackage, 1, p0), Line(a, 1, v), Line(AnyPackage, 1, v)>>}
MCPackagesOf == (u :> {a} @@ shared :> {a, b})
MCPhysical == (v :> None @@ p0 :> 0 @@ p1 :> 1)
=============================================================================
