\* Trees of up to three nodes below the root; commands and requests on one of
\* three or four; one object on a page.
SPECIFICATION MCSpec
CONSTANTS
  Aliases = FALSE
  Careful = TRUE
INVARIANTS TreesReturn ContainersKeep RequestsAgree PagesShow
CHECK_DEADLOCK FALSE
