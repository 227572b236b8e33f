SPECIFICATION SessionSpec
CONSTANTS
  a = a
  b = b
  u = u
  shared = shared
  v = v
  p0 = p0
  p1 = p1
  AnyPackage = AnyPackage
  None = None
  Rejected = Rejected
  Topology <- MCTopology
  Shape = {"connectDevice", "integerCameraId"}
  Name = {0, 1, 1000}
  Package = {a, b}
  Uid = {u, shared}
  PackagesOf <- MCPackagesOf
  Provider = {v, p0, p1}
  Physical <- MCPhysical
  RouteTable <- MCRouteTable
  MaxChanges = 2
  BodyWidth = {1, 2}
  MaxRequests = 2
INVARIANTS
  FollowsPolicy
  NoStaleTopology
  RefusedForCause
  RequestsNameTheirDevice
  RewritersAgree
