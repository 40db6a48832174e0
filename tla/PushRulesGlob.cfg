SPECIFICATION Spec
CONSTANTS Rulesets <- GlobSets
          Own <- McOwn
          Inputs <- McInputs
          RoomIds = {"!r"}
          UserIds = {"@me", "@a"}
INVARIANT GlobsMatch
