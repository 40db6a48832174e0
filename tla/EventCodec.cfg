SPECIFICATION Spec
CONSTANTS EventIds = {"a", "b"}
          MaxRelations = 2
CHECK_DEADLOCK FALSE
INVARIANTS Reloads KeepsMeaning KeepsRelations OthersSee KeepsAlternative ListsAgree
