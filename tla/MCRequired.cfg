\* A required property that is an object of its own.
CONSTANTS
  CharLength <- Lengths
  NumberText <- Numerals
  IsValid <- Valid
  AuthorizeLinks <- ApplyToLinks
  EvaluateTemplates <- EvaluateWithContext
  Nesting <- NestingOf
  Selected <- SelectedBySql
  NegatedLinks <- LinksNegated
  TruthOf <- Holds
  LinksOf <- Links
  QueryFilters <- SomeFilters
  QueryRows <- SomeRows
  Schemas <- AllSchemas
  PlainSchemas <- ReadSchemas
  ActorSchemas <- AskedSchemas
  ReachedSchemas <- SchemasReached
  LinkNames = {"has", "is"}
  Values <- RowValues
  Contracts <- TableRows
  Linkings <- RowLinkings
  Asked <- NestedQuestions
  AskedByActors <- NoQuestions
  Actors <- Users
  RoleSchemas <- Roles
  MarkerParts <- Compounds
  Versions <- SomeVersions
  TextRank <- Collation
SPECIFICATION Spec
INVARIANT RequiredExist
