SPECIFICATION Spec
CONSTANTS
    Models <- MCModels
    Settings <- MCSettings
    PlainSettings <- MCPlain
    Attachments <- MCAttachments
    MaxTurns = 2
INVARIANTS
    EveryCallAnswered
    ReasoningStaysWithItsModel
    SaidIsSent
    NothingRejectable
    CanAlwaysGoOn
