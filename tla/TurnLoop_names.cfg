SPECIFICATION Spec
CONSTANTS
    Models <- MCGemini
    Settings <- MCSettings
    PlainSettings <- MCPlain
    Attachments <- MCAttachments
    MaxTurns = 2
INVARIANTS
    ResultsNameTheirCall
