---------------------------- MODULE DashboardIds -----------------------------
(* What the parts of the dashboard have in common. *)
CONSTANTS
    Uuid,   \* session ids
    None    \* nothing there
=============================================================================
