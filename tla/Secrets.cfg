SPECIFICATION Spec
CONSTANTS Samples <- McSamples
          CodeSamples <- McCodeSamples
          Keys <- McKeys
          Passwords = {7, 9}
          SaltBytes = 2
          BlockBytes = 2
          DigestBytes = 2
          MaxSessions = 2
INVARIANTS KeyUnlocks SecretsKept ExportKept SignaturesVerify CodesAgree
CHECK_DEADLOCK FALSE
