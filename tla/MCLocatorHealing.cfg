CONSTANTS
  login = login
  send = send
  input = input
  link = link
  submit = submit
  plain = plain
  InputWord <- input
  LinkWord <- link
  Submit <- submit
  NoPage = NoPage
  NoPath = NoPath
  p1 = p1
  p2 = p2
  FormFields <- MCFormFields
  MaxScanned = 2
  Cases <- MCCases
SPECIFICATION CaseSpec
INVARIANTS RepeatsOnlyIfPresent ProposalRemovesFailure ToolsAgree
CHECK_DEADLOCK FALSE
