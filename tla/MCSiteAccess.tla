----------------------------- MODULE MCSiteAccess -----------------------------
(* SiteAccess with a site, the relay's own origin, and one tab. *)
EXTENDS SiteAccess

CONSTANTS a, relay, t1
=============================================================================
