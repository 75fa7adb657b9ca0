-------------------------- MODULE MCBackgroundWork --------------------------
(* Values for TLC: a tenant with a duty, a deliverable or a launched run.  *)
EXTENDS BackgroundWork

CONSTANTS duty, work, child, slot1, slot2, pass

TenantLoads == {{duty}, {work}, {child}}
=============================================================================
