SPECIFICATION Spec
CONSTANTS Us = Us Them = Them b = b d1 = d1
          Users <- McUsers
          Devices <- McDevices
          Owner <- McOwner
          BotDevice = b
          MaxPuts = 2
          MaxErrors = 2
          MaxRuns = 3
CHECK_DEADLOCK FALSE
INVARIANTS ReadsWhatItCan AnswersOnce KeyOpensSession IndexOnce
PROPERTY SyncProgress
