SPECIFICATION Spec
CONSTANTS Rulesets <- McRulesets
          Own <- McOwn
          Inputs <- McInputs
          RoomIds = {"!r"}
          UserIds = {"@me", "@a"}
INVARIANTS FollowsRules KeepsRules MentionsDecide
