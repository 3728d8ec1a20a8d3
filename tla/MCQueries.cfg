\* Schemas of one property with one or two keywords each, of columns and of links;
\* actors with and without roles, one of them in a scope; versions of two majors.
CONSTANTS
  CharLength <- Lengths
  NumberText <- Numerals
  IsValid <- Valid
  AuthorizeLinks <- ApplyToLinks
  EvaluateTemplates <- EvaluateWithContext
  Nesting <- NestingOf
  Selected <- SelectedBySql
  NegatedLinks <- LinksNegated
  TruthOf <- Holds
  LinksOf <- Links
  QueryFilters <- SomeFilters
  QueryRows <- SomeRows
  Schemas <- AllSchemas
  PlainSchemas <- ReadSchemas
  ActorSchemas <- AskedSchemas
  ReachedSchemas <- SchemasReached
  LinkNames = {"has", "is"}
  Values <- RowValues
  Contracts <- TableRows
  Linkings <- RowLinkings
  Asked <- Questions
  AskedByActors <- ActorQuestions
  Actors <- Users
  RoleSchemas <- Roles
  MarkerParts <- Compounds
  Versions <- SomeVersions
  TextRank <- Collation
SPECIFICATION Spec
INVARIANTS SelectsTheValid LinksSurvive AnswersAreAuthorized LatestIsNewest
