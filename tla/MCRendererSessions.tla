------------------------ MODULE MCRendererSessions ------------------------
(***************************************************************************)
(* An instance of RendererSessions: of two Window Displays one may change  *)
(* its Presentation, the other competes for the session.                   *)
(***************************************************************************)
EXTENDS RendererSessions

CONSTANTS d1, d2, toast, modal, other

MCContentsOf == (d1 :> {toast, modal, other}) @@ (d2 :> {modal})
=============================================================================
