\* One site with one or two names, or a wildcard; an operator's certificate for the first.
SPECIFICATION SiteSpec
CONSTANTS
  Names <- ThreeNames
  Unprovable <- AnyWild
  DomainSets <- OneOrTwo
  Uploads <- OwnCertificate
  MaxEdits = 2
  MaxFaults = 1
INVARIANTS
  SiteTypeOK
  DateIsTheCertificates
PROPERTIES
  CertificateCovers
  CertificateServed
