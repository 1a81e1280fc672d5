SPECIFICATION ClientSpec
CONSTANTS
  None = None
  Never = Never
  Error = Error
  Missing = Missing
  Broken = Broken
  Own = Own
  Old = Old
  Foreign = {theirs}
  Commands = {c1, c2}
  Contents <- SomeContents
  Environments <- SomeEnvironments
  InlineCodex = {"user"}
  Requests <- SomeRequests
  EditedPlaces <- SomePlaces
  EditedEvents = {"Stop", "Notification"}
  CommandLines <- SomeCommandLines
  Browsings <- SomeBrowsings
  Nothing = Nothing
  Servers = {"here", "there"}
  Reports <- SomeReports
  MaxEvents = 4
INVARIANTS SettingsAreCurrent EventsAreTold CommandsArriveAsTyped
PROPERTY CommandsAreExact
CHECK_DEADLOCK FALSE
