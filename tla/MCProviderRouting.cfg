CONSTANTS
    r1 = r1
    awsDefault = awsDefault
    awsEast = awsEast
    provider1West = provider1West
    aws = aws
    provider1 = provider1
    None = None
    Request = {r1}
    Name <- MCName
    Type <- MCType
    Aws = aws
    Spelled <- MCSpelled
    AwsDefault = awsDefault
    Config <- MCConfig
    Template <- MCTemplate
SPECIFICATION Spec
INVARIANTS
    TypeOK
    RunsWhereItFits
PROPERTIES
    ServableIsServed
    LostOnlyByRegistration
