--------------------------- MODULE MCSiteSettings ---------------------------
(* SiteSettings on small instances. *)
EXTENDS SiteSettings
=============================================================================
