CONSTANTS
  Title = "title"
  SectionNames = {"method"}
  Figures = {"figure 1"}
  Equations = {"equation 1"}
  Entities = {"a", "b", "c", "d"}
  Caption <- CaptionOf
  Papers <- SomePapers
  Contributions <- SomeContributions
  Extractions <- SomeExtractions
  Merges <- SomeMerges
  Aliases <- SomeAliases
  Audits <- SomeAudits
  Files <- SomeFiles
  MaxAnswers = 2
SPECIFICATION Spec
INVARIANTS
  WellFormed
  MergesKeepRelations
  ReportsAgree
  ContextIsCurrent
PROPERTIES
  OnlyDoubtedAreDropped
