SPECIFICATION AuthoringSpec
CONSTANTS
  c1 = c1  c2 = c2  None = None  Refused = Refused  Absent = Absent
  Clients = {c1, c2}
  Names = {"w"}
  Definitions <- AnyDefinitions
  Texts <- SoundTexts
  Drafts <- AnyDrafts
  Offered <- AnyOffered
  MaxVersion = 2
  MaxAsserted = 0
INVARIANTS AssertionsHold NothingDropped ExportsReload
PROPERTIES Versioned
SYMMETRY Symmetry
