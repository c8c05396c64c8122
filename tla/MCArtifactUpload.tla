-------------------------- MODULE MCArtifactUpload --------------------------
(***************************************************************************)
(* Small instances of ArtifactUpload.                                      *)
(***************************************************************************)
EXTENDS ArtifactUpload

CONSTANTS u1, u2, u3, s1, f1, f2, h1, h2

\* Two rows of different ZIPs with one destination.
ConflictSubject == u1 :> s1 @@ u2 :> s1
ConflictTarget == u1 :> f1 @@ u2 :> f1
ConflictHash == u1 :> h1 @@ u2 :> h2

\* Two rows of different artifacts with equal content and destination.
TwinHash == u1 :> h1 @@ u2 :> h1
TwinConcurrency == u1 :> 2 @@ u2 :> 2

\* Three rows of one subject, which raised its limit after the first: u1 and u2
\* go to the same file with different ZIPs, u3 to another file.
ThreeSubject == u1 :> s1 @@ u2 :> s1 @@ u3 :> s1
ThreeTarget == u1 :> f1 @@ u2 :> f1 @@ u3 :> f2
ThreeHash == u1 :> h1 @@ u2 :> h2 @@ u3 :> h1
ThreeConcurrency == u1 :> 1 @@ u2 :> 2 @@ u3 :> 2

\* u3 is created before the other rows are claimed, or never; without u3, the
\* task of u1 may leave `done' and come back.
ThreeStory ==
  /\ eligible' # eligible => status[u3] = "absent"
  /\ status'[u3] # status[u3] /\ status[u3] = "absent" =>
       eligible[u1] /\ Running = {} /\ \A u \in Uploads : status[u] \in {"absent", "queued"}
=============================================================================
