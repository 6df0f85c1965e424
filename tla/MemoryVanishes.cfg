SPECIFICATION GraphSpec
CONSTANTS
  Memories = {"n1", "n2", "n3"}
  Subjects = {"tea", "work"}
  TypeOf <- MCTypeOf
  MinCluster = 2
INVARIANT KnowledgeKept
CHECK_DEADLOCK FALSE
