---------------------------- MODULE RoutedSession ----------------------------
(***************************************************************************)
(* A routed camera from the request that opens it to its capture requests: *)
(* CameraRouter decides which device a connectDevice opens, and the reply  *)
(* is wrapped so that ParcelRewrite renames the requests submitted to it.  *)
(*                                                                         *)
(* The two share nothing but the pair of names handed over with the reply: *)
(* the wrapper reads no file.  A session therefore runs to its end before  *)
(* the next step of the router.                                            *)
(***************************************************************************)
EXTENDS CameraRouter

CONSTANTS BodyWidth, MaxRequests

VARIABLES opened, wrapper, batch, position, parcel

session == <<opened, wrapper, batch, position, parcel>>

(* A camera ID is as wide as its decimal numeral.                          *)
Camera == Name \cup UNION {DOMAIN t.index : t \in Topology}
Width == [c \in Camera |-> IF c < 10 THEN 1 ELSE IF c < 100 THEN 2 ELSE IF c < 1000 THEN 3 ELSE 4]

P == INSTANCE ParcelRewrite WITH Id <- Camera, ValidId <- Camera, sent <- parcel

SessionInit == Init /\ P!Init

(* A connectDevice that was sent rewritten returns with the device.        *)
OpenSession ==
  /\ opened = None /\ Return
  /\ req.shape = "connectDevice" /\ sent \notin {Rejected, req.id}
  /\ P!Connect(req.id, sent)

(* Another transaction, one that was not rewritten, or a service error.    *)
EndWithoutSession == opened = None /\ Return /\ UNCHANGED session

Route == opened = None /\ (Environment \/ Decide) /\ UNCHANGED session
UseSession == P!Use /\ UNCHANGED vars

SessionNext == Route \/ OpenSession \/ EndWithoutSession \/ UseSession
SessionSpec == SessionInit /\ [][SessionNext]_<<vars, session>>

-----------------------------------------------------------------------------
SessionTypeOK == TypeOK /\ P!TypeOK

(* Capture requests that name the camera the application asked for arrive  *)
(* naming the camera the router had opened for it, every other cell        *)
(* untouched and the reader at its field; any other batch arrives as it    *)
(* was sent, never rewritten in part.                                      *)
RequestsNameTheirDevice == P!RequestsNameTheirDevice /\ P!PositionKeepsItsField

(* Both rewriters do the same to a parcel with one ID.                     *)
RewritersAgree == P!RewritersAgree
=============================================================================
