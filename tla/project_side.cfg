SPECIFICATION ProjectSideSpec
CONSTANTS
  Boards = {p, q}
  Messages = {"m1", "m2"}
  ProposalOf <- MCProposalOf
  Statuses = {"in_progress", "done"}
  MaxEdits = 3
  Trees <- MCTrees
  Uses <- MCUses
  Changes <- MCChanges
  Drafts <- MCDrafts
  Capabilities = {"c1", "c2", "c3"}
  Kinds = {"deny"}
  Requests = {r, s}
  MaxComponents = 2
  MinSplit = 2
  MaxChanges = 1
INVARIANTS
  PlanIsConsistent PublishedIsNewest ExactImpactIsWhole EverySymbolHasOwner
PROPERTIES
  NothingUnseenIsOverwritten
SYMMETRY Symmetry
CHECK_DEADLOCK FALSE
