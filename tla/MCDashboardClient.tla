-------------------------- MODULE MCDashboardClient --------------------------
(* Two buttons pressed, one drag and one reload at any moment; two requests *)
(* under way at a time, so that answers overtake each other.                *)
EXTENDS DashboardClient
=============================================================================
