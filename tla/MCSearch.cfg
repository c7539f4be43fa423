CONSTANTS
  Ids = {1, 2, 3, 4}
  Docs <- MCDocs
  Keywords <- MCKeywords
  Forms <- MCForms
  PageSizes = {2}
  NoTxt = NoTxt
SPECIFICATION SearchSpec
INVARIANTS FoundRight PagesOnce
