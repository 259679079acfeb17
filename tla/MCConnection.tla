----------------------------- MODULE MCConnection -----------------------------
(* Instances of Connection for TLC; see the .cfg files.                     *)
EXTENDS Connection

LoginAs(type, k) == [code |-> "login", type |-> type, camera |-> k]
Camera(k) == [code |-> "camera", camera |-> k]
PictureFrame == [code |-> "picture"]

Phone == <<LoginAs("phone", 1), PictureFrame>>

\* A PC logs in a second time with a wrong type, while a phone sends it a picture ...
Kicked == <<LoginAs("pc", 0), LoginAs("bad", 0)>>
Kick == [script : {<<Kicked, <<PictureFrame>> >>},
         leaving : {{}}, fds : {{0, 1}}, burst : {2}, listener : {0}]

\* ... or leaves at the same time ...
KickLeave == [script : {<<Kicked>>}, leaving : {{1}}, fds : {{0}}, burst : {1}, listener : {0}]

\* ... or another logs in on the same descriptor, which another worker enters.
KickLate == [script : {<< <<LoginAs("bad", 0), Camera(1)>>, <<LoginAs("phone", 1)>> >>},
             leaving : {{1}}, fds : {{0}}, burst : {2}, listener : {1}]

\* A PC that changes its camera while a phone sends; the phone comes after the PC ...
Relay == [script : {<< <<LoginAs("pc", 1), Camera(0)>>, <<PictureFrame>> >>},
          leaving : {{}}, fds : {{0, 1}}, burst : {2}, listener : {0}]

\* ... or before it, and leaves.
Away == [script : {<< <<PictureFrame>>, <<LoginAs("pc", 1), Camera(0)>> >>},
         leaving : {{1}}, fds : {{0, 1}}, burst : {2}, listener : {0}]

\* A third client, which does not log in, comes after the PC while a phone's picture is
\* walked to it ...
Join == [script : {<< <<PictureFrame>>, <<LoginAs("pc", 0)>>, <<>> >>},
         leaving : {{}}, fds : {{0, 1, 2}}, burst : {2}, listener : {0}]

\* ... or before it, and the PC's entry is the last of three.
AtEnd == [script : {<< <<PictureFrame>>, <<>>, <<LoginAs("pc", 0)>> >>},
         leaving : {{}}, fds : {{0, 1, 2}}, burst : {2}, listener : {0}]

\* One descriptor for three connections, of which two leave ...
Churn == [script : {<< <<>>, <<>>, <<>> >>},
          leaving : {{1, 2}}, fds : {{0}}, burst : {2}, listener : {0, 1}]

\* ... or one leaves and the next, which stays, logs in.
Crowd == [script : {<< <<>>, <<LoginAs("pc", 1)>>, <<>> >>},
          leaving : {{1}}, fds : {{0}}, burst : {2}, listener : {0, 1}]

All == Kick \cup KickLeave \cup KickLate \cup Relay \cup Away \cup Join \cup AtEnd \cup Churn \cup Crowd

\* A phone alone; the worker of its descriptor is not the one that accepts.
Early == [script : {<<Phone>>}, leaving : {{}}, fds : {{0}}, burst : {2}, listener : {1}]
=============================================================================
